---- MODULE Spec2Model ----
(***************************************************************************)
(* A model of the rule-based natural-language query engine of EcomAgent    *)
(* (src/query_engine.py, class IntelligentQueryEngine).                     *)
(*                                                                          *)
(* Texts are TLA+ strings; Len, SubSeq and \o act on them as on sequences   *)
(* of characters.  A Python dict is a function whose domain is its key set. *)
(* One call of query() is a chain of steps, one per statement of its body.  *)
(*                                                                          *)
(* Two collaborators of the engine are modelled beside it, each under a     *)
(* specification of its own: get_gemini_insights of src/app.py, which       *)
(* comments on an envelope, and get_db of src/database.py, which hands the  *)
(* store connection to the engine and to every other caller.                *)
(***************************************************************************)
EXTENDS Integers, Sequences, FiniteSets, TLC

VARIABLES
    pending,               \* questions the caller is still going to ask
    now,                   \* datetime.utcnow().date() as seen by the running call
    has_dateutil,          \* whether "from dateutil.relativedelta import ..." succeeds
    conversation_history,  \* self.conversation_history
    pc,                    \* position inside query()
    natural_language_query,\* argument of the running call
    query_clean,           \* local of query()
    intent,                \* local of query()
    params,                \* local of query()
    sql_query,             \* local of query()
    result,                \* local of query()
    exc,                   \* str(e) of the exception caught by query()
    response,              \* value returned by the last finished call
    executed,              \* statements handed to self.db.execute during the call
    classified,            \* history: the intent returned for each entry of the log
    gemini_model,          \* app.py: whether the global gemini_model is set
    query_result,          \* argument of get_gemini_insights
    gi_pc,                 \* position inside get_gemini_insights
    attempt,               \* loop variable of get_gemini_insights
    err,                   \* str(e) of the exception caught by get_gemini_insights
    extracted,             \* text extracted from the latest reply of the model
    insight,               \* value returned by get_gemini_insights
    generate_calls,        \* history: calls of gemini_model.generate_content so far
    _db_instance,          \* database.py: the global connection, None at first
    db_pc,                 \* position of each thread inside get_db
    conn,                  \* what load_data returned to each thread
    returned,              \* what get_db returned to each thread
    since,                 \* history: the connection first handed out, as it stood when each call began
    first_conn,            \* history: the connection of the first get_db call that succeeded
    load_runs,             \* history: connections load_data has created so far
    gets,                  \* history: calls of get_db begun so far
    chatbot,               \* the class of the chatbot that was constructed
    chat_history,          \* the chatbot's self.conversation_history
    conversation_context,  \* ConversationalDataChatbot: self.conversation_context
    context,               \* EnhancedConversationalChatbot: self.context
    sent                   \* history: the arguments of the chat() calls so far

insightVars == <<gemini_model, query_result, gi_pc, attempt, err, extracted, insight,
                 generate_calls>>

dbVars == <<_db_instance, db_pc, conn, returned, since, first_conn, load_runs, gets>>

engineVars == <<pending, now, has_dateutil, conversation_history, pc,
                natural_language_query, query_clean, intent, params, sql_query,
                result, exc, response, executed, classified>>

chatVars == <<chatbot, chat_history, conversation_context, context, sent>>

vars == <<engineVars, insightVars, dbVars, chatVars>>

-----------------------------------------------------------------------------
(* Bounds of the model *)

\* number of vocabulary fragments joined into one composed question
MaxFrags == 2
\* number of query() calls of one engine in the multi-call specification
MaxCalls == 3
\* number of rows the store returns at most
MaxRows == 6
\* number of threads that call get_db
MaxThreads == 3
\* number of get_db calls of all threads together
MaxGets == 4
\* calls of chat() on one chatbot
MaxChats == 6

-----------------------------------------------------------------------------
(* Characters and strings *)

Lowers == "abcdefghijklmnopqrstuvwxyz"
Uppers == "ABCDEFGHIJKLMNOPQRSTUVWXYZ"
Digits == "0123456789"

\* 1-based position of character c in string s, 0 when absent
RECURSIVE IndexFrom(_, _, _)
IndexFrom(s, c, i) ==
    IF i > Len(s) THEN 0
    ELSE IF SubSeq(s, i, i) = c THEN i
    ELSE IndexFrom(s, c, i + 1)

IndexOf(s, c) == IndexFrom(s, c, 1)

IsDigit(c) == IndexOf(Digits, c) > 0
IsSpace(c) == c \in {" ", "\t", "\n", "\r"}
\* \w of the re module: letters, digits and the underscore
IsWord(c) == IndexOf(Lowers, c) > 0 \/ IndexOf(Uppers, c) > 0 \/ IsDigit(c) \/ c = "_"

\* str.lower() on one character
LowerChar(c) ==
    IF IndexOf(Uppers, c) > 0
    THEN SubSeq(Lowers, IndexOf(Uppers, c), IndexOf(Uppers, c))
    ELSE c

RECURSIVE Lower(_)
Lower(s) == IF s = "" THEN "" ELSE LowerChar(SubSeq(s, 1, 1)) \o Lower(Tail(s))

RECURSIVE LStrip(_)
LStrip(s) == IF s # "" /\ IsSpace(SubSeq(s, 1, 1)) THEN LStrip(Tail(s)) ELSE s

RECURSIVE RStrip(_)
RStrip(s) ==
    IF s # "" /\ IsSpace(SubSeq(s, Len(s), Len(s)))
    THEN RStrip(SubSeq(s, 1, Len(s) - 1))
    ELSE s

\* str.strip()
Strip(s) == RStrip(LStrip(s))

\* "w in q" on Python strings
Contains(q, w) == \E i \in 1..(Len(q) - Len(w) + 1) : SubSeq(q, i, i + Len(w) - 1) = w

\* any(w in q for w in words)
AnyIn(q, words) == \E w \in words : Contains(q, w)

\* q[i:].startswith(w), 1-based
StartsAt(q, i, w) == i + Len(w) - 1 <= Len(q) /\ SubSeq(q, i, i + Len(w) - 1) = w

\* first position >= i that holds no white space (the end of \s* matched from i)
RECURSIVE SkipSpaces(_, _)
SkipSpaces(q, i) ==
    IF i <= Len(q) /\ IsSpace(SubSeq(q, i, i)) THEN SkipSpaces(q, i + 1) ELSE i

\* first position >= i that holds no digit (the end of \d+ matched greedily from i)
RECURSIVE SkipDigits(_, _)
SkipDigits(q, i) ==
    IF i <= Len(q) /\ IsDigit(SubSeq(q, i, i)) THEN SkipDigits(q, i + 1) ELSE i

\* int() of a string of decimal digits
RECURSIVE ParseInt(_)
ParseInt(s) ==
    IF s = "" THEN 0
    ELSE ParseInt(SubSeq(s, 1, Len(s) - 1)) * 10 + (IndexOf(Digits, SubSeq(s, Len(s), Len(s))) - 1)

-----------------------------------------------------------------------------
(* Python dicts *)

EmptyDict == [k \in {} |-> 0]
Has(d, k) == k \in DOMAIN d
\* d[k] = v
Put(d, k, v) == [x \in (DOMAIN d) \cup {k} |-> IF x = k THEN v ELSE d[x]]
\* d.get(k, default)
Get(d, k, default) == IF k \in DOMAIN d THEN d[k] ELSE default

-----------------------------------------------------------------------------
(* _clean_query *)

\* re.sub(r'[^\w\s?-]', '', query): drop every character that is not a word
\* character, white space, '?' or '-'
RECURSIVE StripPunctuation(_)
StripPunctuation(s) ==
    IF s = "" THEN ""
    ELSE LET c == SubSeq(s, 1, 1)
         IN  (IF IsWord(c) \/ IsSpace(c) \/ c = "?" \/ c = "-" THEN c ELSE "")
             \o StripPunctuation(Tail(s))

_clean_query(query) == Lower(Strip(StripPunctuation(query)))

-----------------------------------------------------------------------------
(* _classify_intent *)

\* mutant: the bare word customer is not among the terms of the first rule
CustomerTerms_Phrases == {"lifetime revenue", "ltv", "top customer", "top customers",
                          "repeat purchase", "repeat rate"}

CustomerTerms == {"customer", "customers", "lifetime revenue", "ltv", "top customer",
                  "top customers", "repeat purchase", "repeat rate"}
DeliveryTerms == {"delivery", "deliver", "shipped", "ship", "fulfill", "fulfillment"}
RankingTerms  == {"highest", "top", "best", "most selling", "leading", "popular"}
ProductTerms  == {"category", "product", "categories"}
TrendTerms    == {"trend", "growth", "over time", "monthly", "quarterly", "past", "month", "year"}
AverageTerms  == {"average", "avg", "mean", "aov", "average order value"}
TotalTerms    == {"total", "sum", "all", "overall", "total revenue"}
CountTerms    == {"count", "how many", "number of"}
PaymentTerms  == {"payment", "method", "installment", "pay"}
GeoTerms      == {"state", "location", "city", "region", "geographic", "where"}
StatusTerms   == {"status", "cancelled", "canceled", "delivered", "pending"}

\* mutant: the fallback is a value outside the enumeration
FallbackIntent_General == "general"

\* mutant: the fallback is the enumeration's own fallback value
FallbackIntent_Grouping == "grouping"

\* the final return of _classify_intent
FallbackIntent == "top_selling"

\* mutant: the customer rule is tested after the count rule
IntentOf_CustomerAfterCount(q) ==
    IF AnyIn(q, DeliveryTerms) THEN "delivery_analysis"
    ELSE IF AnyIn(q, RankingTerms) /\ AnyIn(q, ProductTerms) THEN "top_selling"
    ELSE IF AnyIn(q, TrendTerms) THEN "time_series"
    ELSE IF AnyIn(q, AverageTerms) THEN "average_value"
    ELSE IF AnyIn(q, TotalTerms) THEN "total_value"
    ELSE IF AnyIn(q, CountTerms) THEN "count"
    ELSE IF AnyIn(q, CustomerTerms) THEN "top_customers"
    ELSE IF AnyIn(q, PaymentTerms) THEN "payment_analysis"
    ELSE IF AnyIn(q, GeoTerms) THEN "geographic"
    ELSE IF AnyIn(q, StatusTerms) THEN "order_status"
    ELSE FallbackIntent

\* mutant: the ranking rule is tested before the delivery rule
IntentOf_RankingBeforeDelivery(q) ==
    IF AnyIn(q, CustomerTerms) THEN "top_customers"
    ELSE IF AnyIn(q, RankingTerms) /\ AnyIn(q, ProductTerms) THEN "top_selling"
    ELSE IF AnyIn(q, DeliveryTerms) THEN "delivery_analysis"
    ELSE IF AnyIn(q, TrendTerms) THEN "time_series"
    ELSE IF AnyIn(q, AverageTerms) THEN "average_value"
    ELSE IF AnyIn(q, TotalTerms) THEN "total_value"
    ELSE IF AnyIn(q, CountTerms) THEN "count"
    ELSE IF AnyIn(q, PaymentTerms) THEN "payment_analysis"
    ELSE IF AnyIn(q, GeoTerms) THEN "geographic"
    ELSE IF AnyIn(q, StatusTerms) THEN "order_status"
    ELSE FallbackIntent

\* the cascade of keyword tests on the lower-cased text
IntentOf(q) ==
    IF AnyIn(q, CustomerTerms) THEN "top_customers"
    ELSE IF AnyIn(q, DeliveryTerms) THEN "delivery_analysis"
    ELSE IF AnyIn(q, RankingTerms) /\ AnyIn(q, ProductTerms) THEN "top_selling"
    ELSE IF AnyIn(q, TrendTerms) THEN "time_series"
    ELSE IF AnyIn(q, AverageTerms) THEN "average_value"
    ELSE IF AnyIn(q, TotalTerms) THEN "total_value"
    ELSE IF AnyIn(q, CountTerms) THEN "count"
    ELSE IF AnyIn(q, PaymentTerms) THEN "payment_analysis"
    ELSE IF AnyIn(q, GeoTerms) THEN "geographic"
    ELSE IF AnyIn(q, StatusTerms) THEN "order_status"
    ELSE FallbackIntent

\* mutant: the text of the previous log entry is classified along with the query
_classify_intent_WithContext(query) ==
    IF Len(conversation_history) >= 2
    THEN IntentOf(Lower(conversation_history[Len(conversation_history) - 1].query
                        \o " " \o query))
    ELSE IntentOf(Lower(query))

_classify_intent(query) == IntentOf(Lower(query))

-----------------------------------------------------------------------------
(* _extract_parameters *)

\* re.search(r'top\s*(\d+)', q): the digits of the leftmost match, "" when none
RECURSIVE TopDigitsFrom(_, _)
TopDigitsFrom(q, i) ==
    IF i > Len(q) THEN ""
    ELSE IF StartsAt(q, i, "top")
            /\ SkipDigits(q, SkipSpaces(q, i + 3)) > SkipSpaces(q, i + 3)
         THEN SubSeq(q, SkipSpaces(q, i + 3), SkipDigits(q, SkipSpaces(q, i + 3)) - 1)
         ELSE TopDigitsFrom(q, i + 1)

\* re.search(r'(\d+)\s*<unit>s?', q): the digits of the leftmost match, "" when
\* none.  A match starts at a digit; \d+ takes the rest of the digit run, and
\* giving digits back never helps, the next character being a digit.
RECURSIVE DigitsBeforeFrom(_, _, _)
DigitsBeforeFrom(q, unit, i) ==
    IF i > Len(q) THEN ""
    ELSE IF IsDigit(SubSeq(q, i, i)) /\ StartsAt(q, SkipSpaces(q, SkipDigits(q, i)), unit)
         THEN SubSeq(q, i, SkipDigits(q, i) - 1)
         ELSE DigitsBeforeFrom(q, unit, i + 1)

ExtractTopN(q, p) ==
    LET m  == TopDigitsFrom(q, 1)
        p1 == IF m # "" THEN Put(p, "top_n", ParseInt(m)) ELSE p
    IN  IF Contains(q, "top customers") /\ ~Has(p1, "top_n") THEN Put(p1, "top_n", 10) ELSE p1

\* mutant: a number of quarters is taken as a number of months
ExtractMonthsBack_QuartersAsMonths(q, p) ==
    LET m_q == DigitsBeforeFrom(q, "quarter", 1)
        m_m == DigitsBeforeFrom(q, "month", 1)
        p1  == IF m_q # "" THEN Put(p, "months_back", ParseInt(m_q)) ELSE p
        p2  == IF m_m # "" THEN Put(p1, "months_back", ParseInt(m_m)) ELSE p1
        p3  == IF Contains(q, "quarter") /\ ~Has(p2, "months_back")
               THEN Put(p2, "months_back", 3) ELSE p2
    IN  IF Contains(q, "year") /\ ~Has(p3, "months_back") THEN Put(p3, "months_back", 12) ELSE p3

ExtractMonthsBack(q, p) ==
    LET m_q == DigitsBeforeFrom(q, "quarter", 1)
        m_m == DigitsBeforeFrom(q, "month", 1)
        p1  == IF m_q # "" THEN Put(p, "months_back", ParseInt(m_q) * 3) ELSE p
        p2  == IF m_m # "" THEN Put(p1, "months_back", ParseInt(m_m)) ELSE p1
        p3  == IF Contains(q, "quarter") /\ ~Has(p2, "months_back")
               THEN Put(p2, "months_back", 3) ELSE p2
    IN  IF Contains(q, "year") /\ ~Has(p3, "months_back") THEN Put(p3, "months_back", 12) ELSE p3

\* mutant: the first of the dimension words that is present is kept
ExtractDimension_FirstMatch(q, p) ==
    IF Contains(q, "category") THEN Put(p, "dimension", "category")
    ELSE IF Contains(q, "state") THEN Put(p, "dimension", "state")
    ELSE IF Contains(q, "city") THEN Put(p, "dimension", "city")
    ELSE p

ExtractDimension(q, p) ==
    LET p1 == IF Contains(q, "category") THEN Put(p, "dimension", "category") ELSE p
        p2 == IF Contains(q, "state") THEN Put(p1, "dimension", "state") ELSE p1
    IN  IF Contains(q, "city") THEN Put(p2, "dimension", "city") ELSE p2

\* mutant: the word "value" is taken for a metric
ExtractMetric_Value(q, p) ==
    LET p1 == IF Contains(q, "revenue") \/ Contains(q, "sales") \/ Contains(q, "value")
              THEN Put(p, "metric", "revenue") ELSE p
        p2 == IF Contains(q, "rating") \/ Contains(q, "review")
              THEN Put(p1, "metric", "rating") ELSE p1
    IN  IF Contains(q, "price") THEN Put(p2, "metric", "price") ELSE p2

ExtractMetric(q, p) ==
    LET p1 == IF Contains(q, "revenue") \/ Contains(q, "sales")
              THEN Put(p, "metric", "revenue") ELSE p
        p2 == IF Contains(q, "rating") \/ Contains(q, "review")
              THEN Put(p1, "metric", "rating") ELSE p1
    IN  IF Contains(q, "price") THEN Put(p2, "metric", "price") ELSE p2

_extract_parameters(query) ==
    LET q == Lower(query)
    IN  ExtractMetric(q, ExtractDimension(q, ExtractMonthsBack(q, ExtractTopN(q, EmptyDict))))

-----------------------------------------------------------------------------
(* Calendar dates and _months_ago_date *)

\* datetime.MINYEAR: date() and date.replace() raise ValueError below it
MINYEAR == 1

Date(y, m, d) == [year |-> y, month |-> m, day |-> d]

IsLeap(y) == y % 4 = 0 /\ (y % 100 # 0 \/ y % 400 = 0)

\* calendar.monthrange(year, month)[1]
DaysInMonth(y, m) ==
    IF m = 2 THEN (IF IsLeap(y) THEN 29 ELSE 28)
    ELSE IF m \in {4, 6, 9, 11} THEN 30 ELSE 31

Min(a, b) == IF a <= b THEN a ELSE b

\* zero-padded decimal of width 2 and 4
Pad2(n) == IF n < 10 THEN "0" \o ToString(n) ELSE ToString(n)
Pad4(n) ==
    IF n < 10 THEN "000" \o ToString(n)
    ELSE IF n < 100 THEN "00" \o ToString(n)
    ELSE IF n < 1000 THEN "0" \o ToString(n)
    ELSE ToString(n)

\* date.isoformat()
IsoFormat(d) == Pad4(d.year) \o "-" \o Pad2(d.month) \o "-" \o Pad2(d.day)

\* A value or the exception a call raised
Ok(v) == [ok |-> TRUE, val |-> v, err |-> ""]
Raised(msg) == [ok |-> FALSE, val |-> "", err |-> msg]

\* today - relativedelta(months=months_back): relativedelta normalises the
\* months to years and months, steps back, borrows a year when the month
\* falls below 1, clips the day to the length of the target month and builds
\* the date with date.replace, which raises for a year below MINYEAR.
MinusRelativeDelta(today, months_back) ==
    LET years  == months_back \div 12
        months == months_back % 12
        y0     == today.year - years
        m0     == today.month - months
        year   == IF m0 < 1 THEN y0 - 1 ELSE y0
        month  == IF m0 < 1 THEN m0 + 12 ELSE m0
        day    == Min(DaysInMonth(year, month), today.day)
    IN  IF year < MINYEAR
        THEN Raised("year " \o ToString(year) \o " is out of range")
        ELSE Ok(Date(year, month, day))

\* the "while month <= 0" loop of the manual fallback; yields <<year, month>>.
\* The loop adds 12 to the month and takes 1 from the year until the month is
\* positive: for month <= 0 it runs (-month) \div 12 + 1 times.
Rollover(year, month) ==
    LET turns == IF month <= 0 THEN ((-month) \div 12) + 1 ELSE 0
    IN  <<year - turns, month + 12 * turns>>

\* the except branch of _months_ago_date
ManualMonthsAgo(today, months_back) ==
    LET ym == Rollover(today.year, today.month - months_back)
    IN  IF ym[1] < MINYEAR
        THEN IsoFormat(Date(today.year, today.month, 1))
        ELSE IsoFormat(Date(ym[1], ym[2], 1))

\* the try branch of _months_ago_date: the import, the subtraction, the date
DateutilMonthsAgo(today, months_back) ==
    IF ~has_dateutil THEN Raised("No module named 'dateutil'")
    ELSE LET target == MinusRelativeDelta(today, months_back)
         IN  IF target.ok
             THEN Ok(IsoFormat(Date(target.val.year, target.val.month, 1)))
             ELSE target

_months_ago_date(months_back) ==
    LET preferred == DateutilMonthsAgo(now, months_back)
    IN  IF preferred.ok THEN preferred.val ELSE ManualMonthsAgo(now, months_back)

-----------------------------------------------------------------------------
(* The SQL templates of _generate_sql, line for line *)

\* lines 146-157
SqlTopCustomers(top_n) ==
    "\n"
    \o "SELECT\n"
    \o "  o.customer_id,\n"
    \o "  COUNT(DISTINCT o.order_id) AS orders,\n"
    \o "  ROUND(SUM(COALESCE(oi.price, 0)), 2) AS lifetime_revenue,\n"
    \o "  ROUND( CASE WHEN COUNT(DISTINCT o.order_id) > 0 THEN (COUNT(DISTINCT o.order_id) - 1) * 1.0 / COUNT(DISTINCT o.order_id) ELSE 0 END * 100.0, 2) AS repeat_purchase_pct\n"
    \o "FROM orders o\n"
    \o "JOIN order_items oi ON o.order_id = oi.order_id\n"
    \o "GROUP BY o.customer_id\n"
    \o "ORDER BY lifetime_revenue DESC\n"
    \o "LIMIT " \o ToString(top_n) \o "\n"

\* lines 160-171
SqlDelivery ==
    "\n"
    \o "SELECT 'Total Delivered Orders' as metric, COUNT(*) as value\n"
    \o "FROM orders\n"
    \o "WHERE order_delivered_customer_date IS NOT NULL\n"
    \o "UNION ALL\n"
    \o "SELECT 'Total Orders' as metric, COUNT(*) as value\n"
    \o "FROM orders\n"
    \o "UNION ALL\n"
    \o "SELECT 'Delivery Rate %' as metric,\n"
    \o "  ROUND(CAST(COUNT(CASE WHEN order_delivered_customer_date IS NOT NULL THEN 1 END) AS FLOAT) * 100.0 / NULLIF(COUNT(*),0), 1) as value\n"
    \o "FROM orders\n"

\* lines 177-189
SqlTopSellingWindowed(cutoff) ==
    "\n"
    \o "SELECT\n"
    \o "  COALESCE(p.product_category_name, 'Unknown') as category,\n"
    \o "  COUNT(DISTINCT oi.order_id) as orders,\n"
    \o "  ROUND(SUM(COALESCE(oi.price, 0)), 2) as revenue\n"
    \o "FROM products p\n"
    \o "JOIN order_items oi ON p.product_id = oi.product_id\n"
    \o "JOIN orders o ON oi.order_id = o.order_id\n"
    \o "WHERE CAST(o.order_purchase_timestamp AS DATE) >= DATE '" \o cutoff \o "'\n"
    \o "GROUP BY p.product_category_name\n"
    \o "ORDER BY revenue DESC\n"
    \o "LIMIT 10\n"

\* lines 191-201
SqlTopSelling ==
    "\n"
    \o "SELECT\n"
    \o "  COALESCE(p.product_category_name, 'Unknown') as category,\n"
    \o "  COUNT(DISTINCT oi.order_id) as orders,\n"
    \o "  ROUND(SUM(COALESCE(oi.price, 0)), 2) as revenue\n"
    \o "FROM products p\n"
    \o "JOIN order_items oi ON p.product_id = oi.product_id\n"
    \o "GROUP BY p.product_category_name\n"
    \o "ORDER BY revenue DESC\n"
    \o "LIMIT 10\n"

\* lines 206-217
SqlTimeSeries(cutoff, months) ==
    "\n"
    \o "SELECT\n"
    \o "  DATE_TRUNC('month', CAST(o.order_purchase_timestamp AS TIMESTAMP))::DATE as period,\n"
    \o "  COUNT(DISTINCT o.order_id) as orders,\n"
    \o "  ROUND(SUM(COALESCE(oi.price, 0)), 2) as revenue\n"
    \o "FROM orders o\n"
    \o "JOIN order_items oi ON o.order_id = oi.order_id\n"
    \o "WHERE CAST(o.order_purchase_timestamp AS DATE) >= DATE '" \o cutoff \o "'\n"
    \o "GROUP BY DATE_TRUNC('month', CAST(o.order_purchase_timestamp AS TIMESTAMP))::DATE\n"
    \o "ORDER BY period DESC\n"
    \o "LIMIT " \o ToString(months) \o "\n"

\* lines 223-234
SqlAverageValueFor(category) ==
    "\n"
    \o "SELECT\n"
    \o "  COALESCE(p.product_category_name, 'Unknown') as category,\n"
    \o "  ROUND(AVG(COALESCE(oi.price, 0)), 2) as avg_value,\n"
    \o "  COUNT(DISTINCT oi.order_id) as orders\n"
    \o "FROM products p\n"
    \o "JOIN order_items oi ON p.product_id = oi.product_id\n"
    \o "WHERE LOWER(p.product_category_name) LIKE '%" \o category \o "%'\n"
    \o "GROUP BY p.product_category_name\n"
    \o "ORDER BY avg_value DESC\n"
    \o "LIMIT 10\n"

\* lines 236-246
SqlAverageValue ==
    "\n"
    \o "SELECT\n"
    \o "  COALESCE(p.product_category_name, 'Unknown') as category,\n"
    \o "  ROUND(AVG(COALESCE(oi.price, 0)), 2) as avg_value,\n"
    \o "  COUNT(DISTINCT oi.order_id) as orders\n"
    \o "FROM products p\n"
    \o "JOIN order_items oi ON p.product_id = oi.product_id\n"
    \o "GROUP BY p.product_category_name\n"
    \o "ORDER BY avg_value DESC\n"
    \o "LIMIT 10\n"

\* lines 249-257
SqlTotalValue ==
    "\n"
    \o "SELECT 'Total Orders' as metric, CAST(COUNT(*) AS VARCHAR) as value FROM orders\n"
    \o "UNION ALL\n"
    \o "SELECT 'Total Revenue (R$)' as metric, CAST(ROUND(SUM(COALESCE(price, 0)), 2) AS VARCHAR) FROM order_items\n"
    \o "UNION ALL\n"
    \o "SELECT 'Total Customers' as metric, CAST(COUNT(DISTINCT customer_id) AS VARCHAR) FROM orders\n"
    \o "UNION ALL\n"
    \o "SELECT 'Total Products' as metric, CAST(COUNT(DISTINCT product_id) AS VARCHAR) FROM products\n"

\* lines 260-260
SqlCountCustomers ==
    "SELECT 'Total Customers' as metric, COUNT(DISTINCT customer_id) as count FROM orders"

\* lines 262-262
SqlCountOrders ==
    "SELECT 'Total Orders' as metric, COUNT(*) as count FROM orders"

\* lines 264-264
SqlCountProducts ==
    "SELECT 'Total Products' as metric, COUNT(DISTINCT product_id) as count FROM products"

\* lines 268-276
SqlPayment ==
    "\n"
    \o "SELECT\n"
    \o "  COALESCE(payment_type, 'Unknown') as payment_method,\n"
    \o "  COUNT(*) as total_orders,\n"
    \o "  ROUND(SUM(COALESCE(payment_value, 0)), 2) as total_revenue\n"
    \o "FROM payments\n"
    \o "GROUP BY payment_type\n"
    \o "ORDER BY total_orders DESC\n"

\* lines 278-289
SqlGeographic ==
    "\n"
    \o "SELECT\n"
    \o "  COALESCE(c.customer_state, 'Unknown') as state,\n"
    \o "  COUNT(DISTINCT o.order_id) as orders,\n"
    \o "  ROUND(SUM(COALESCE(oi.price, 0)), 2) as revenue\n"
    \o "FROM customers c\n"
    \o "JOIN orders o ON c.customer_id = o.customer_id\n"
    \o "JOIN order_items oi ON o.order_id = oi.order_id\n"
    \o "GROUP BY c.customer_state\n"
    \o "ORDER BY orders DESC\n"
    \o "LIMIT 15\n"

\* lines 291-299
SqlOrderStatus ==
    "\n"
    \o "SELECT\n"
    \o "  COALESCE(order_status, 'Unknown') as status,\n"
    \o "  COUNT(*) as order_count,\n"
    \o "  ROUND(COUNT(*) * 100.0 / (SELECT COUNT(*) FROM orders), 1) as percentage\n"
    \o "FROM orders\n"
    \o "GROUP BY order_status\n"
    \o "ORDER BY order_count DESC\n"

\* lines 301-311
SqlDefault ==
    "\n"
    \o "SELECT\n"
    \o "  COALESCE(p.product_category_name, 'Unknown') as category,\n"
    \o "  COUNT(DISTINCT oi.order_id) as orders,\n"
    \o "  ROUND(SUM(COALESCE(oi.price, 0)), 2) as revenue\n"
    \o "FROM products p\n"
    \o "LEFT JOIN order_items oi ON p.product_id = oi.product_id\n"
    \o "GROUP BY p.product_category_name\n"
    \o "ORDER BY revenue DESC\n"
    \o "LIMIT 10\n"

-----------------------------------------------------------------------------
(* _generate_sql *)

\* the alternatives of the category pattern, in the order of the pattern
CategoryFragments == <<"electronics", "beauty", "sports", "home", "fashion", "books",
                       "toys", "informatica">>

\* first alternative of the pattern that matches at position i, "" when none
RECURSIVE AlternativeAt(_, _, _)
AlternativeAt(q, i, k) ==
    IF k > Len(CategoryFragments) THEN ""
    ELSE IF StartsAt(q, i, CategoryFragments[k]) THEN CategoryFragments[k]
    ELSE AlternativeAt(q, i, k + 1)

\* re.search(r'(electronics|beauty|...)', q): group 1 of the leftmost match
RECURSIVE CategoryMatchFrom(_, _)
CategoryMatchFrom(q, i) ==
    IF i > Len(q) THEN ""
    ELSE IF AlternativeAt(q, i, 1) # "" THEN AlternativeAt(q, i, 1)
    ELSE CategoryMatchFrom(q, i + 1)

category_match(original_query) == CategoryMatchFrom(Lower(original_query), 1)

\* Python truth value of params.get('months_back')
Truthy(n) == n # 0

GenTopCustomers(p) == SqlTopCustomers(Get(p, "top_n", 10))

\* mutant: the ranking intent is rendered with the geographic template
GenTopSelling_Geographic(p) == SqlGeographic

\* mutant: the ranking of categories is cut off at top_n when it is given
GenTopSelling_TopN(p) ==
    LET sql == IF Truthy(Get(p, "months_back", 0))
               THEN SqlTopSellingWindowed(_months_ago_date(p["months_back"]))
               ELSE SqlTopSelling
    IN  SubSeq(sql, 1, Len(sql) - Len("10\n")) \o ToString(Get(p, "top_n", 10)) \o "\n"

GenTopSelling(p) ==
    IF Truthy(Get(p, "months_back", 0))
    THEN SqlTopSellingWindowed(_months_ago_date(p["months_back"]))
    ELSE SqlTopSelling

GenTimeSeries(p) ==
    LET months == Get(p, "months_back", 12)
    IN  SqlTimeSeries(_months_ago_date(months), months)

\* mutant: the question itself is put into the LIKE pattern
GenAverageValue_RawText(original_query) ==
    IF category_match(original_query) # ""
    THEN SqlAverageValueFor(original_query)
    ELSE SqlAverageValue

GenAverageValue(original_query) ==
    IF category_match(original_query) # ""
    THEN SqlAverageValueFor(category_match(original_query))
    ELSE SqlAverageValue

GenCount(original_query) ==
    IF Contains(original_query, "customer") THEN SqlCountCustomers
    ELSE IF Contains(original_query, "order") THEN SqlCountOrders
    ELSE IF Contains(original_query, "product") THEN SqlCountProducts
    ELSE SqlCountOrders

_generate_sql(i, p, original_query) ==
    IF i = "top_customers" THEN GenTopCustomers(p)
    ELSE IF i = "delivery_analysis" THEN SqlDelivery
    ELSE IF i = "top_selling" THEN GenTopSelling(p)
    ELSE IF i = "time_series" THEN GenTimeSeries(p)
    ELSE IF i = "average_value" THEN GenAverageValue(original_query)
    ELSE IF i = "total_value" THEN SqlTotalValue
    ELSE IF i = "count" THEN GenCount(original_query)
    ELSE IF i = "payment_analysis" THEN SqlPayment
    ELSE IF i = "geographic" THEN SqlGeographic
    ELSE IF i = "order_status" THEN SqlOrderStatus
    ELSE SqlDefault

-----------------------------------------------------------------------------
(* Values of a result row: None, a number or a text *)

Null == [t |-> "null", n |-> 0, s |-> ""]
Num(n) == [t |-> "num", n |-> n, s |-> ""]
Str(s) == [t |-> "str", n |-> 0, s |-> s]

\* Python truth value of a row value
Truth(v) == (v.t = "num" /\ v.n # 0) \/ (v.t = "str" /\ v.s # "")

\* str(v)
StrOf(v) == IF v.t = "null" THEN "None" ELSE IF v.t = "num" THEN ToString(v.n) ELSE v.s

IsNumeral(s) == s # "" /\ \A i \in 1..Len(s) : IsDigit(SubSeq(s, i, i))

\* int(v) and float(v) of a truthy row value: a number, or the ValueError
ToNumber(v, what) ==
    IF v.t = "num" THEN Ok(v.n)
    ELSE IF IsNumeral(v.s) THEN Ok(ParseInt(v.s))
    ELSE Raised(what \o " '" \o v.s \o "'")

ToInt(v) == ToNumber(v, "invalid literal for int() with base 10:")
ToFloat(v) == ToNumber(v, "could not convert string to float:")

-----------------------------------------------------------------------------
(* _fmt_int, _fmt_currency *)

Pad3(n) == IF n < 10 THEN "00" \o ToString(n) ELSE IF n < 100 THEN "0" \o ToString(n) ELSE ToString(n)

\* format(n, ',') of a natural number
RECURSIVE Grouped(_)
Grouped(n) == IF n < 1000 THEN ToString(n) ELSE Grouped(n \div 1000) \o "," \o Pad3(n % 1000)

_fmt_int(v) == Grouped(v)

\* revenue values of the model are whole currency units
_fmt_currency(v) == "R$" \o Grouped(v) \o ".00"

-----------------------------------------------------------------------------
(* _generate_insights, _format_response, _handle_error                      *)
(* The pictographs that decorate the narrative strings are left out; the    *)
(* bullet of the generic summary is written as a hyphen.                    *)

\* number of rows the generic narrative walks: result[:5]
K == 5

\* "\n\n".join(lines)
RECURSIVE Join(_, _)
Join(lines, sep) ==
    IF lines = <<>> THEN ""
    ELSE IF Len(lines) = 1 THEN lines[1]
    ELSE lines[1] \o sep \o Join(Tail(lines), sep)

\* str(row[0])[:10]
Prefix(s, n) == SubSeq(s, 1, Min(n, Len(s)))

\* int(row[k]) if row[k] else 0, float(row[k]) if row[k] else 0
IntOrZero(v) == IF Truth(v) THEN ToInt(v) ELSE Ok(0)
FloatOrZero(v) == IF Truth(v) THEN ToFloat(v) ELSE Ok(0)

\* one line of the time series narrative, or the exception of its conversions
PeriodLine(row) ==
    LET period  == IF Truth(row[1]) THEN Prefix(StrOf(row[1]), 10) ELSE "Unknown"
        orders  == IntOrZero(row[2])
        revenue == FloatOrZero(row[3])
    IN  IF ~orders.ok THEN orders
        ELSE IF ~revenue.ok THEN revenue
        ELSE Ok("**" \o period \o "**: " \o _fmt_int(orders.val) \o " orders | "
                \o _fmt_currency(revenue.val))

\* the loop over the rows: all lines, or the first exception
RECURSIVE PeriodLines(_)
PeriodLines(rows) ==
    IF rows = <<>> THEN Ok(<<>>)
    ELSE LET first == PeriodLine(rows[1])
             rest  == PeriodLines(Tail(rows))
         IN  IF ~first.ok THEN first
             ELSE IF ~rest.ok THEN rest
             ELSE Ok(<<first.val>> \o rest.val)

\* format(growth, '+.1f') of growth = num / den * 100, den > 0, to the nearest tenth
GrowthText(num, den) ==
    LET mag    == IF num < 0 THEN -num ELSE num
        tenths == (mag * 2000 + den) \div (2 * den)
    IN  (IF num < 0 THEN "-" ELSE "+") \o ToString(tenths \div 10) \o "." \o ToString(tenths % 10)

\* mutant: the growth is computed without looking at the divisor
GrowthLine_Unchecked(rows) ==
    LET latest_rev == FloatOrZero(rows[1][3])
        oldest_rev == FloatOrZero(rows[Len(rows)][3])
    IN  IF ~latest_rev.ok THEN latest_rev
        ELSE IF ~oldest_rev.ok THEN oldest_rev
        ELSE IF oldest_rev.val # 0
        THEN Ok("\n**Growth Rate (latest vs oldest shown)**: "
                \o GrowthText(latest_rev.val - oldest_rev.val, oldest_rev.val) \o "%")
        ELSE Raised("float division by zero")

\* lines 355-361
GrowthLine(rows) ==
    LET latest_rev == FloatOrZero(rows[1][3])
        oldest_rev == FloatOrZero(rows[Len(rows)][3])
    IN  IF ~latest_rev.ok THEN latest_rev
        ELSE IF ~oldest_rev.ok THEN oldest_rev
        ELSE IF oldest_rev.val # 0
        THEN Ok("\n**Growth Rate (latest vs oldest shown)**: "
                \o GrowthText(latest_rev.val - oldest_rev.val, oldest_rev.val) \o "%")
        ELSE Ok("\n**Growth Rate (latest vs oldest shown)**: N/A (oldest period revenue = 0)")

TimeSeriesInsights(rows) ==
    LET body   == PeriodLines(rows)
        growth == GrowthLine(rows)
    IN  IF ~body.ok THEN body
        ELSE IF ~growth.ok THEN growth
        ELSE Ok(Join(<<"**Revenue Trends Over Time**", "">> \o body.val \o <<growth.val>>, "\n\n"))

\* mutant: the generic summary has a line for every row
SummaryLines_AllRows(rows) ==
    [i \in 1..Len(rows) |-> "- " \o StrOf(rows[i][1]) \o ": " \o StrOf(rows[i][2])]

\* the lines of the generic summary, one per row of result[:5]
SummaryLines(rows) ==
    [i \in 1..Min(K, Len(rows)) |-> "- " \o StrOf(rows[i][1]) \o ": " \o StrOf(rows[i][2])]

SummaryInsights(rows) ==
    Ok(Join(<<"**Query Results** (" \o ToString(Len(rows)) \o " items)", "">>
            \o SummaryLines(rows), "\n\n"))

_generate_insights(rows, i, original_query) ==
    IF i = "time_series" THEN TimeSeriesInsights(rows) ELSE SummaryInsights(rows)

\* mutant: the empty result is reported as a success
NoDataEnvelope_Success(i, p, original_query, sql) ==
    [status |-> "success", message |-> "No data found for your query",
     query_asked |-> original_query, data |-> <<>>,
     analysis |-> "No data available. Try a different question.",
     intent |-> i, params |-> p, sql |-> sql]

NoDataEnvelope(i, p, original_query, sql) ==
    [status |-> "no_data", message |-> "No data found for your query",
     query_asked |-> original_query, data |-> <<>>,
     analysis |-> "No data available. Try a different question.",
     intent |-> i, params |-> p, sql |-> sql]

SuccessEnvelope(rows, i, p, original_query, sql, analysis) ==
    [status |-> "success", query_asked |-> original_query, intent |-> i, params |-> p,
     data |-> rows, count |-> Len(rows), analysis |-> analysis, sql |-> sql]

\* the envelope, or the exception raised while it was built
_format_response(rows, i, p, original_query, sql) ==
    IF Len(rows) = 0 THEN Ok(NoDataEnvelope(i, p, original_query, sql))
    ELSE LET analysis == _generate_insights(rows, i, original_query)
         IN  IF analysis.ok
             THEN Ok(SuccessEnvelope(rows, i, p, original_query, sql, analysis.val))
             ELSE analysis

Suggestion == "Try simpler questions like: \"Top selling category?\" or \"Total revenue?\""

_handle_error(error, query) ==
    [status |-> "error", error |-> "Query processing error: " \o error,
     query_asked |-> query, suggestion |-> Suggestion, data |-> <<>>,
     analysis |-> "Error: " \o error \o "\n\nTry asking: 'What are the top selling categories?'"]

-----------------------------------------------------------------------------
(* The environment: questions, the clock, the store *)

\* fragments a composed question is made of
Vocab == <<"top 0", "customers", "delivery", "Top selling category", "2 quarters",
           "5 months">>

\* whole questions
Scenarios == {"Top selling category in the past 2 quarters", "Average order value",
              "asdf qwerty", "top -5 customers", "top customers", "top 5 categories",
              "trend over the past 0 months", "revenue for 30000 months",
              "sales per quarter", "growth this year", "past 2 months",
              "delivery of the top selling category to customers",
              "Total revenue?", "count of products", "number of orders",
              "payment methods", "orders by state", "cancelled orders",
              "mean price of books and toys", "Average order value electronics",
              "how many customers", "how many orders", "'; DROP TABLE orders; --",
              "avg price of electronics'; DROP TABLE orders; --",
              "sales by city state and category",
              "price rating and revenue by category and state",
              "reviews and sales per category",
              "Top selling category in the past 0 months"}

\* the fragments fs[1..n] joined by single blanks
RECURSIVE Phrase(_)
Phrase(fs) ==
    IF Len(fs) = 1 THEN Vocab[fs[1]]
    ELSE Vocab[fs[1]] \o " " \o Phrase(Tail(fs))

Composed == UNION {{Phrase(fs) : fs \in [1..n -> 1..Len(Vocab)]} : n \in 1..MaxFrags}

Questions == Scenarios \cup Composed

\* the questions of a session of several calls
SessionQuestions == {"top 0 customers", "Average order value"}

Sessions == UNION {[1..n -> SessionQuestions] : n \in 1..MaxCalls}

\* days on which calls are made, in calendar order
Dates == <<Date(2024, 1, 31), Date(2024, 7, 15)>>

DateLE(a, b) ==
    \/ a.year < b.year
    \/ a.year = b.year /\ a.month < b.month
    \/ a.year = b.year /\ a.month = b.month /\ a.day <= b.day

\* a row of the store: a label or period, a count, an amount
Row(i, amount) == <<Str("2024-0" \o ToString(i) \o "-01 00:00:00"), Num(i), amount>>

\* amounts of the last (oldest) row that the narratives tell apart
Amounts == {Num(100), Num(70), Num(400), Num(0), Null, Str("n/a")}

\* n rows, newest first, the last (oldest) with amount a
Rows(n, a) == [i \in 1..n |-> IF i = n THEN Row(i, a) ELSE Row(i, Num(150 * i))]

\* positions at which w occurs in s
Occurrences(s, w) == {i \in 1..(Len(s) - Len(w) + 1) : SubSeq(s, i, i + Len(w) - 1) = w}

SetMin(S) == CHOOSE x \in S : \A y \in S : x <= y

\* the text of s that follows the first occurrence of w
After(s, w) == SubSeq(s, SetMin(Occurrences(s, w)) + Len(w), Len(s))

\* the integer after LIMIT
LimitOf(sql) == ParseInt(SubSeq(After(sql, "LIMIT "), 1, SkipDigits(After(sql, "LIMIT "), 1) - 1))

\* what fetchall() may return: nothing, up to MaxRows rows, and MaxRows rows
\* that end with any of the amounts
ResultSets ==
    {<<>>} \cup {Rows(n, Num(100)) : n \in 1..MaxRows} \cup {Rows(MaxRows, a) : a \in Amounts}

\* what fetchall() may return for a statement: a result set of no more rows
\* than the statement's LIMIT clause, if it has one, allows
FetchAll(sql) ==
    LET limited == Contains(sql, "LIMIT ")
        limit   == LimitOf(sql)
    IN  {rows \in ResultSets : limited => Len(rows) <= limit}

\* messages of the exceptions self.db.execute(sql) may raise: the text is the
\* store's own, and a store that reports the place of the fault quotes the
\* line of the statement it rejected, here the whole of a one-line statement
StoreErrors(sql) ==
    {"Catalog Error: Table with name orders does not exist!"}
    \cup (IF Contains(sql, "\n") THEN {}
          ELSE {"Catalog Error: Table with name orders does not exist!\nLINE 1: " \o sql})

-----------------------------------------------------------------------------
(* query(): one action per statement *)

\* mutant: the try block ends before the response is formatted
TryBody_WithoutFormat == {"classify", "extract", "generate", "execute"}

\* the statements of query() that stand inside its try block
TryBody == {"classify", "extract", "generate", "execute", "format"}

NoResponse == [status |-> "none"]

\* an exception with message msg leaves the statement at position stage
Raise(stage, msg) ==
    IF stage \in TryBody
    THEN pc' = "except" /\ exc' = msg
    ELSE pc' = "raised" /\ exc' = msg

HistoryEntry(timestamp, q) == [timestamp |-> timestamp, query |-> q, type |-> "user"]

\* mutant: the log keeps the two latest entries only
Call_BoundedLog ==
    /\ pc \in {"idle", "done"}
    /\ pending # <<>>
    /\ \E today \in {Dates[k] : k \in 1..Len(Dates)} :
          /\ DateLE(now, today)
          /\ now' = today
    /\ natural_language_query' = Head(pending)
    /\ pending' = Tail(pending)
    /\ query_clean' = _clean_query(Head(pending))
    /\ conversation_history' =
          LET log == Append(conversation_history, HistoryEntry(now', _clean_query(Head(pending))))
          IN  IF Len(log) > 2 THEN Tail(log) ELSE log
    /\ intent' = "" /\ params' = EmptyDict /\ sql_query' = "" /\ result' = <<>>
    /\ exc' = "" /\ response' = NoResponse /\ executed' = <<>>
    /\ pc' = "classify"
    /\ UNCHANGED <<has_dateutil, classified>>
    /\ UNCHANGED <<insightVars, dbVars, chatVars>>

\* lines 62-67: clean the text and append it to the log
Call ==
    /\ pc \in {"idle", "done"}
    /\ pending # <<>>
    /\ \E today \in {Dates[k] : k \in 1..Len(Dates)} :
          /\ DateLE(now, today)
          /\ now' = today
    /\ natural_language_query' = Head(pending)
    /\ pending' = Tail(pending)
    /\ query_clean' = _clean_query(Head(pending))
    /\ conversation_history' =
          Append(conversation_history, HistoryEntry(now', _clean_query(Head(pending))))
    /\ intent' = "" /\ params' = EmptyDict /\ sql_query' = "" /\ result' = <<>>
    /\ exc' = "" /\ response' = NoResponse /\ executed' = <<>>
    /\ pc' = "classify"
    /\ UNCHANGED <<has_dateutil, classified>>
    /\ UNCHANGED <<insightVars, dbVars, chatVars>>

\* line 70
Classify ==
    /\ pc = "classify"
    /\ intent' = _classify_intent(query_clean)
    /\ classified' = Append(classified, intent')
    /\ pc' = "extract"
    /\ UNCHANGED <<pending, now, has_dateutil, conversation_history, natural_language_query,
                   query_clean, params, sql_query, result, exc, response, executed>>
    /\ UNCHANGED <<insightVars, dbVars, chatVars>>

\* line 71
Extract ==
    /\ pc = "extract"
    /\ params' = _extract_parameters(query_clean)
    /\ pc' = "generate"
    /\ UNCHANGED <<pending, now, has_dateutil, conversation_history, natural_language_query,
                   query_clean, intent, sql_query, result, exc, response, executed, classified>>
    /\ UNCHANGED <<insightVars, dbVars, chatVars>>

\* mutant: the statement generator writes the default it used into the mapping
Generate_StoresDefault ==
    /\ pc = "generate"
    /\ sql_query' = _generate_sql(intent, params, query_clean)
    /\ params' = Put(params, "top_n", Get(params, "top_n", 10))
    /\ pc' = "execute"
    /\ UNCHANGED <<pending, now, has_dateutil, conversation_history, natural_language_query,
                   query_clean, intent, result, exc, response, executed, classified>>
    /\ UNCHANGED <<insightVars, dbVars, chatVars>>

\* line 72
Generate ==
    /\ pc = "generate"
    /\ sql_query' = _generate_sql(intent, params, query_clean)
    /\ pc' = "execute"
    /\ UNCHANGED <<pending, now, has_dateutil, conversation_history, natural_language_query,
                   query_clean, intent, params, result, exc, response, executed, classified>>
    /\ UNCHANGED <<insightVars, dbVars, chatVars>>

\* line 73, _execute_query: the store answers with rows
ExecuteRows ==
    /\ pc = "execute"
    /\ executed' = Append(executed, sql_query)
    /\ \E rows \in FetchAll(sql_query) : result' = rows
    /\ pc' = "format"
    /\ UNCHANGED <<pending, now, has_dateutil, conversation_history, natural_language_query,
                   query_clean, intent, params, sql_query, exc, response, classified>>
    /\ UNCHANGED <<insightVars, dbVars, chatVars>>

\* mutant: a statement the store rejected is handed to it once more
ExecuteFails_Retry ==
    /\ pc = "execute"
    /\ executed' = Append(executed, sql_query)
    /\ IF executed = <<>>
       THEN pc' = "execute" /\ exc' = exc
       ELSE \E e \in StoreErrors(sql_query) : Raise("execute", "Database query failed: " \o e)
    /\ UNCHANGED <<pending, now, has_dateutil, conversation_history, natural_language_query,
                   query_clean, intent, params, sql_query, result, response, classified>>
    /\ UNCHANGED <<insightVars, dbVars, chatVars>>

\* line 73, _execute_query: the store raises, the exception is wrapped and raised again
ExecuteFails ==
    /\ pc = "execute"
    /\ executed' = Append(executed, sql_query)
    /\ \E e \in StoreErrors(sql_query) : Raise("execute", "Database query failed: " \o e)
    /\ UNCHANGED <<pending, now, has_dateutil, conversation_history, natural_language_query,
                   query_clean, intent, params, sql_query, result, response, classified>>
    /\ UNCHANGED <<insightVars, dbVars, chatVars>>

\* lines 74-75, the envelope is built and returned
Format ==
    /\ pc = "format"
    /\ LET envelope == _format_response(result, intent, params, query_clean, sql_query)
       IN  envelope.ok /\ response' = envelope.val
    /\ pc' = "done"
    /\ UNCHANGED <<pending, now, has_dateutil, conversation_history, natural_language_query,
                   query_clean, intent, params, sql_query, result, exc, executed, classified>>
    /\ UNCHANGED <<insightVars, dbVars, chatVars>>

\* line 74, a conversion of _generate_insights raises
FormatFails ==
    /\ pc = "format"
    /\ LET envelope == _format_response(result, intent, params, query_clean, sql_query)
       IN  ~envelope.ok /\ Raise("format", envelope.err)
    /\ UNCHANGED <<pending, now, has_dateutil, conversation_history, natural_language_query,
                   query_clean, intent, params, sql_query, result, response, executed, classified>>
    /\ UNCHANGED <<insightVars, dbVars, chatVars>>

\* lines 76-77
HandleError ==
    /\ pc = "except"
    /\ response' = _handle_error(exc, query_clean)
    /\ pc' = "done"
    /\ UNCHANGED <<pending, now, has_dateutil, conversation_history, natural_language_query,
                   query_clean, intent, params, sql_query, result, exc, executed, classified>>
    /\ UNCHANGED <<insightVars, dbVars, chatVars>>

-----------------------------------------------------------------------------
(* The collaborators before any of their functions is called *)

NoQueryResult == [status |-> "none"]

InsightsAtRest ==
    /\ gemini_model = FALSE /\ query_result = NoQueryResult /\ gi_pc = "idle"
    /\ attempt = 0 /\ err = "" /\ extracted = "" /\ insight = "" /\ generate_calls = 0

Threads == 1..MaxThreads

\* None
NoConnection == 0

DbAtRest ==
    /\ _db_instance = NoConnection
    /\ db_pc = [t \in Threads |-> "idle"]
    /\ conn = [t \in Threads |-> NoConnection]
    /\ returned = [t \in Threads |-> NoConnection]
    /\ since = [t \in Threads |-> NoConnection]
    /\ first_conn = NoConnection
    /\ load_runs = 0
    /\ gets = 0

\* self.context of a new EnhancedConversationalChatbot (agent_simple.py 31-38)
NewContext ==
    [last_query |-> Null, last_category |-> Null, last_metric |-> Null,
     last_period |-> Null, questions_asked |-> <<>>, conversation_turns |-> 0]

\* no chatbot has been constructed
ChatAtRest ==
    /\ chatbot = "" /\ chat_history = <<>> /\ conversation_context = <<>>
    /\ context = NewContext /\ sent = <<>>

\* an engine of which nothing is asked
EngineAtRest ==
    /\ pending = <<>> /\ now = Dates[1] /\ has_dateutil = FALSE
    /\ conversation_history = <<>> /\ pc = "idle" /\ natural_language_query = ""
    /\ query_clean = "" /\ intent = "" /\ params = EmptyDict /\ sql_query = ""
    /\ result = <<>> /\ exc = "" /\ response = NoResponse /\ executed = <<>>
    /\ classified = <<>>

-----------------------------------------------------------------------------
(* The engine: __init__, then calls of query() *)

Init ==
    /\ pending \in {<<q>> : q \in Questions} \cup Sessions
    /\ now = Dates[1]
    /\ has_dateutil \in BOOLEAN
    /\ conversation_history = <<>>
    /\ pc = "idle"
    /\ natural_language_query = ""
    /\ query_clean = ""
    /\ intent = ""
    /\ params = EmptyDict
    /\ sql_query = ""
    /\ result = <<>>
    /\ exc = ""
    /\ response = NoResponse
    /\ executed = <<>>
    /\ classified = <<>>
    /\ InsightsAtRest
    /\ DbAtRest
    /\ ChatAtRest

Next ==
    \/ Call
    \/ Classify
    \/ Extract
    \/ Generate
    \/ ExecuteRows
    \/ ExecuteFails
    \/ Format
    \/ FormatFails
    \/ HandleError

Spec == Init /\ [][Next]_vars

-----------------------------------------------------------------------------
(* Text helpers of src/app.py.  Characters outside ASCII are left out: the  *)
(* pictographs of the headers and the bullet character among the list       *)
(* markers; the dash of the "Top:" sentence is written as a hyphen.          *)

\* str.upper() on one character
UpperChar(c) ==
    IF IndexOf(Lowers, c) > 0
    THEN SubSeq(Uppers, IndexOf(Lowers, c), IndexOf(Lowers, c))
    ELSE c

\* str.title(): a letter after a letter is lowered, any other letter is raised
RECURSIVE TitleFrom(_, _)
TitleFrom(s, after_letter) ==
    IF s = "" THEN ""
    ELSE LET c      == SubSeq(s, 1, 1)
             letter == IndexOf(Lowers, c) > 0 \/ IndexOf(Uppers, c) > 0
         IN  (IF ~letter THEN c ELSE IF after_letter THEN LowerChar(c) ELSE UpperChar(c))
             \o TitleFrom(Tail(s), letter)

Title(s) == TitleFrom(s, FALSE)

\* s.replace(a, b) for single characters
RECURSIVE ReplaceChar(_, _, _)
ReplaceChar(s, a, b) ==
    IF s = "" THEN ""
    ELSE (IF SubSeq(s, 1, 1) = a THEN b ELSE SubSeq(s, 1, 1)) \o ReplaceChar(Tail(s), a, b)

\* the least member of a non-empty set of positions
FirstOf(positions) == CHOOSE i \in positions : \A j \in positions : i <= j

\* position of the first line feed of s, 0 when none
LineBreak(s) ==
    LET hits == {i \in 1..Len(s) : SubSeq(s, i, i) = "\n"}
    IN  IF hits = {} THEN 0 ELSE FirstOf(hits)

\* re.split(r"\r?\n", s)
RECURSIVE SplitLines(_)
SplitLines(s) ==
    LET k == LineBreak(s)
    IN  IF k = 0 THEN <<s>>
        ELSE <<IF k > 1 /\ SubSeq(s, k - 1, k - 1) = "\r"
               THEN SubSeq(s, 1, k - 2) ELSE SubSeq(s, 1, k - 1)>>
             \o SplitLines(SubSeq(s, k + 1, Len(s)))

\* [ln.strip() for ln in lines if ln.strip()]
StrippedNonEmpty(lines) ==
    SelectSeq([i \in 1..Len(lines) |-> Strip(lines[i])], LAMBDA ln : ln # "")

\* seq[:n]
Take(seq, n) == SubSeq(seq, 1, Min(n, Len(seq)))

\* position of the first '.', '!' or '?' of s that white space follows, 0 when none
SentenceBreak(s) ==
    LET hits == {i \in 1..(Len(s) - 1) :
                    SubSeq(s, i, i) \in {".", "!", "?"} /\ IsSpace(SubSeq(s, i + 1, i + 1))}
    IN  IF hits = {} THEN 0 ELSE FirstOf(hits)

\* re.split(r'(?<=[.!?])\s+', s)
RECURSIVE SentenceSplit(_)
SentenceSplit(s) ==
    LET k == SentenceBreak(s)
    IN  IF k = 0 THEN <<s>>
        ELSE <<SubSeq(s, 1, k)>> \o SentenceSplit(SubSeq(s, SkipSpaces(s, k + 1), Len(s)))

\* first position >= i that holds white space (the end of a word begun at i)
SkipWord(s, i) ==
    LET hits == {k \in i..Len(s) : IsSpace(SubSeq(s, k, k))}
    IN  IF hits = {} THEN Len(s) + 1 ELSE FirstOf(hits)

\* " ".join(s.split())
RECURSIVE Collapse(_)
Collapse(s) ==
    LET t == LStrip(s)
    IN  IF t = "" THEN ""
        ELSE LET e    == SkipWord(t, 1)
                 rest == Collapse(SubSeq(t, e, Len(t)))
             IN  IF rest = "" THEN SubSeq(t, 1, e - 1) ELSE SubSeq(t, 1, e - 1) \o " " \o rest

-----------------------------------------------------------------------------
(* _fallback_insight_from_data (src/app.py) *)

\* lines 266-267
IntentPart(i) == IF i # "" THEN <<Title(ReplaceChar(i, "_", " ")) \o ".">> ELSE <<>>

\* lines 270-276: the first line of the analysis that is not blank
FirstLinePart(analysis) ==
    LET lines == StrippedNonEmpty(SplitLines(analysis))
    IN  IF lines = <<>> THEN <<>>
        ELSE <<IF Len(lines[1]) < 300 THEN lines[1] ELSE SubSeq(lines[1], 1, 297) \o "...">>

\* " | ".join(map(str, top))
TopJoined(top) == Join([k \in 1..Len(top) |-> StrOf(top[k])], " | ")

\* lines 278-292: the first row of the data
TopPart(data) ==
    IF data = <<>> THEN <<>>
    ELSE LET top == data[1]
         IN  IF Len(top) >= 3
             THEN LET orders  == IF top[2] # Null THEN ToInt(top[2]) ELSE Ok(0)
                      revenue == IF top[3] # Null THEN ToFloat(top[3]) ELSE Ok(0)
                  IN  IF orders.ok /\ revenue.ok
                      THEN <<"Top: " \o StrOf(top[1]) \o " - " \o _fmt_int(orders.val)
                             \o " orders, " \o _fmt_currency(revenue.val) \o ".">>
                      ELSE <<"Top result: " \o TopJoined(Take(top, 3))>>
             ELSE <<"Top result: " \o TopJoined(top)>>

\* lines 294-305
Recommendation(i) ==
    IF i \in {"top_selling", "time_series", "geographic"}
    THEN <<"Consider prioritizing inventory/marketing for top categories or regions.">>
    ELSE IF i = "delivery_analysis"
    THEN <<"Investigate carriers/regions with longer delivery times.">>
    ELSE IF i = "payment_analysis" THEN <<"Optimize UX for the most-used payment methods.">>
    ELSE IF i = "top_customers" THEN <<"Consider loyalty offers for top customers.">>
    ELSE <<>>

\* lines 311-316: up to three sentences, each made a list item
FallbackBullets(text) ==
    LET sentences == Take(SentenceSplit(text), 3)
        kept      == StrippedNonEmpty(sentences)
        bullets   == [k \in 1..Len(kept) |-> "- " \o kept[k]]
    IN  IF bullets = <<>> THEN <<"- See database analysis.">> ELSE bullets

\* the text of the pair that _fallback_insight_from_data returns; its source
\* tag is always "fallback".  No statement of the function raises for an
\* envelope of the engine, so its last except clause is not entered.
_fallback_insight_from_data(qr) ==
    LET analysis == Get(qr, "analysis", "")
        data     == Get(qr, "data", <<>>)
        i        == Get(qr, "intent", "")
        parts    == IntentPart(i) \o FirstLinePart(analysis) \o TopPart(data)
                    \o Recommendation(i)
        joined   == Strip(Join(parts, " "))
        text     == IF joined = "" THEN "No actionable insight available from data."
                    ELSE joined
    IN  "**Fallback Insight**:\n" \o Join(FallbackBullets(text), "\n")

\* f"{text}\n\n_Source: {src}_" with the pair of the fallback
FallbackReturn(qr) == _fallback_insight_from_data(qr) \o "\n\n_Source: fallback_"

-----------------------------------------------------------------------------
(* get_gemini_insights (src/app.py) *)

\* line 351
max_retries == 2

\* the name under which the model was configured (PREFERRED_GEMINI by default)
gemini_model_name == "gemini-pro-latest"

\* the substrings by which line 423 takes an error for transient
TransientKeys == {"rate", "timeout", "tempor", "resource_exhausted", "throttl", "connection"}

\* mutant: every error is taken for transient
Transient_Always(e) == TRUE

\* any(k in err_low for k in (...))
Transient(e) == AnyIn(Lower(e), TransientKeys)

\* ln.startswith("-") or ln.startswith("*")
IsListItem(ln) == StartsAt(ln, 1, "-") \/ StartsAt(ln, 1, "*")

\* re.sub(r'^[-*]\s*', '', b)
DropMarker(b) == IF IsListItem(b) THEN SubSeq(b, SkipSpaces(b, 2), Len(b)) ELSE b

\* lines 382-391: sentences made list items when the reply holds no list item
SentenceItems(text) ==
    LET sents == StrippedNonEmpty(SentenceSplit(text))
    IN  Take([k \in 1..Len(sents) |->
                IF StartsAt(sents[k], 1, "-") THEN sents[k] ELSE "- " \o sents[k]], 3)

\* lines 395-399: one list item cleaned
CleanItem(b) ==
    LET b_clean == Collapse(Strip(DropMarker(b)))
    IN  "- " \o (IF Len(b_clean) > 200 THEN RStrip(SubSeq(b_clean, 1, 197)) \o "..."
                 ELSE b_clean)

\* lines 375-401: the list items taken from the reply, at most three
ModelItems(reply) ==
    LET text    == Strip(reply)
        lines   == StrippedNonEmpty(SplitLines(text))
        listed  == SelectSeq(lines, IsListItem)
        bullets == IF listed = <<>> THEN SentenceItems(text) ELSE listed
    IN  Take([k \in 1..Len(bullets) |-> CleanItem(bullets[k])], 3)

\* lines 403-412: the lines of the fallback text made list items
PaddingItems(qr) ==
    LET fallback_lines == StrippedNonEmpty(SplitLines(_fallback_insight_from_data(qr)))
    IN  [k \in 1..Len(fallback_lines) |->
            IF StartsAt(fallback_lines[k], 1, "-") THEN fallback_lines[k]
            ELSE "- " \o fallback_lines[k]]

\* lines 403-413: fewer than three items are filled up from the fallback
InsightItems(reply, qr) ==
    LET cleaned == ModelItems(reply)
    IN  IF Len(cleaned) < 3 THEN Take(cleaned \o PaddingItems(qr), 3) ELSE cleaned

\* line 417
ModelReturn(reply, qr) ==
    "**AI Insight (" \o gemini_model_name \o ")**:\n" \o Join(InsightItems(reply, qr), "\n")
    \o "\n\n_Source: model_"

\* what _extract_text_from_genai_response may return for a reply: nothing,
\* blanks, three list items, one list item, starred items with carriage
\* returns and double blanks, prose of four sentences, prose of one sentence
ReplyTexts ==
    {"", "   ",
     "- Increase stock for bed_bath_table.\n- Promote health_beauty bundles.\n- Investigate slow categories.",
     "- Increase stock for bed_bath_table.",
     "* Increase  stock\r\n* Promote bundles\r\n* Review prices\r\n* Audit returns",
     "Increase stock now. Promote bundles! Why not discounts? Audit returns.",
     "Promote health_beauty bundles"}

\* messages of the exceptions generate_content may raise
GeminiErrors ==
    {"429 Rate limit exceeded", "503 Service temporarily unavailable",
     "Connection reset by peer", "400 API key not valid",
     "Failed to generate content: blocked by safety settings"}

\* envelopes with status success, the only ones the page passes on (line 570)
InsightEnvelope(rows, i, sql) ==
    SuccessEnvelope(rows, i, EmptyDict, "question", sql, _generate_insights(rows, i, "question").val)

QueryResults ==
    {InsightEnvelope(Rows(2, Num(100)), "top_selling", SqlTopSelling),
     InsightEnvelope(Rows(2, Num(100)), "time_series", SqlTimeSeries("2023-07-01", 6)),
     InsightEnvelope(Rows(1, Null), "average_value", SqlAverageValue),
     InsightEnvelope(Rows(1, Str("n/a")), "top_customers", SqlTopCustomers(10))}

\* The texts below are functions of the reply and the envelope alone; they are
\* tabulated once for the replies, errors and envelopes at hand, and the steps
\* of get_gemini_insights look them up.
NonBlankReplies == {reply \in ReplyTexts : Strip(reply) # ""}

BlankReplies == ReplyTexts \ NonBlankReplies

ModelReturns == [reply \in NonBlankReplies, qr \in QueryResults |-> ModelReturn(reply, qr)]

FallbackReturns == [qr \in QueryResults |-> FallbackReturn(qr)]

TransientErrors == {e \in GeminiErrors \cup {"No text in Gemini response"} : Transient(e)}

\* lines 329-332: no model is configured
InsightsUnconfigured ==
    /\ gi_pc = "idle" /\ ~gemini_model
    /\ insight' = FallbackReturns[query_result]
    /\ gi_pc' = "done"
    /\ UNCHANGED <<gemini_model, query_result, attempt, err, extracted, generate_calls>>
    /\ UNCHANGED <<engineVars, dbVars, chatVars>>

\* lines 335-352: the prompt is built and the loop entered
InsightsEnterLoop ==
    /\ gi_pc = "idle" /\ gemini_model
    /\ attempt' = 0
    /\ gi_pc' = "generate"
    /\ UNCHANGED <<gemini_model, query_result, err, extracted, insight, generate_calls>>
    /\ UNCHANGED <<engineVars, dbVars, chatVars>>

\* lines 355-417: generate_content returns a reply with text
GenerateContentReturns ==
    /\ gi_pc = "generate"
    /\ generate_calls' = generate_calls + 1
    /\ \E reply \in NonBlankReplies :
          /\ extracted' = reply
          /\ insight' = ModelReturns[reply, query_result]
    /\ gi_pc' = "done"
    /\ UNCHANGED <<gemini_model, query_result, attempt, err>>
    /\ UNCHANGED <<engineVars, dbVars, chatVars>>

\* lines 355-373: generate_content returns a reply without text
GenerateContentEmpty ==
    /\ gi_pc = "generate"
    /\ generate_calls' = generate_calls + 1
    /\ \E reply \in BlankReplies : extracted' = reply
    /\ err' = "No text in Gemini response"
    /\ gi_pc' = "except"
    /\ UNCHANGED <<gemini_model, query_result, attempt, insight>>
    /\ UNCHANGED <<engineVars, dbVars, chatVars>>

\* lines 355, 418-420: generate_content raises
GenerateContentRaises ==
    /\ gi_pc = "generate"
    /\ generate_calls' = generate_calls + 1
    /\ \E e \in GeminiErrors : err' = e
    /\ gi_pc' = "except"
    /\ UNCHANGED <<gemini_model, query_result, attempt, extracted, insight>>
    /\ UNCHANGED <<engineVars, dbVars, chatVars>>

\* lines 423-427: sleep, then the next attempt
RetryAfterTransient ==
    /\ gi_pc = "except"
    /\ attempt < max_retries /\ err \in TransientErrors
    /\ attempt' = attempt + 1
    /\ gi_pc' = "generate"
    /\ UNCHANGED <<gemini_model, query_result, err, extracted, insight, generate_calls>>
    /\ UNCHANGED <<engineVars, dbVars, chatVars>>

\* lines 428-430
FallbackAfterError ==
    /\ gi_pc = "except"
    /\ ~(attempt < max_retries /\ err \in TransientErrors)
    /\ insight' = FallbackReturns[query_result]
    /\ gi_pc' = "done"
    /\ UNCHANGED <<gemini_model, query_result, attempt, err, extracted, generate_calls>>
    /\ UNCHANGED <<engineVars, dbVars, chatVars>>

InitInsights ==
    /\ EngineAtRest
    /\ DbAtRest
    /\ ChatAtRest
    /\ gemini_model \in BOOLEAN
    /\ query_result \in QueryResults
    /\ gi_pc = "idle" /\ attempt = 0 /\ err = "" /\ extracted = "" /\ insight = ""
    /\ generate_calls = 0

NextInsights ==
    \/ InsightsUnconfigured
    \/ InsightsEnterLoop
    \/ GenerateContentReturns
    \/ GenerateContentEmpty
    \/ GenerateContentRaises
    \/ RetryAfterTransient
    \/ FallbackAfterError

SpecInsights == InitInsights /\ [][NextInsights]_vars

\* the statements of get_gemini_insights follow one another without waiting
\* for anything but the reply and the sleep, both of which end
FairInsights == SpecInsights /\ WF_vars(NextInsights)

-----------------------------------------------------------------------------
(* Reading a generated statement back *)

\* the date literal of the WHERE clause, as written
CutoffOf(sql) == SubSeq(After(sql, "DATE '"), 1, 10)

\* months since year 0 of a date, and of an ISO date
MonthIndex(d) == d.year * 12 + d.month - 1
IsoMonthIndex(iso) == ParseInt(SubSeq(iso, 1, 4)) * 12 + ParseInt(SubSeq(iso, 6, 7)) - 1

\* positions of query() once _classify_intent has returned
Classified == {"extract", "generate", "execute", "format", "except", "done"}

-----------------------------------------------------------------------------
(* Claims *)

\* C1: query() never lets an exception escape: a finished call has returned an
\* envelope whose status is success, no_data or error, and whenever a step of
\* the call raised, the envelope is the error envelope with its suggestion.
C1_QueryNeverRaises ==
    /\ pc # "raised"
    /\ pc = "done" =>
          /\ response.status \in {"success", "no_data", "error"}
          /\ exc # "" => (response.status = "error" /\ response.suggestion = Suggestion
                          /\ response.error = "Query processing error: " \o exc)

\* C1 witness: rows were fetched, formatting them raised, the call returned
\* the error envelope
C1_Witness ==
    pc = "done" /\ result # <<>> /\ exc # "" /\ response.status = "error"

\* C2: status success only with at least one row, the rows being the data and
\* the analysis a non-empty text; an execution that yields no row gives
\* no_data with empty data.
C2_SuccessHasRows ==
    pc = "done" =>
        /\ response.status = "success" =>
              (result # <<>> /\ response.data = result /\ Len(response.analysis) > 0)
        /\ (exc = "" /\ result = <<>>) =>
              (response.status = "no_data" /\ response.data = <<>>)

\* C2 witness: the statement was executed, no row came back, the call
\* returned no_data
C2_Witness ==
    pc = "done" /\ Len(executed) = 1 /\ exc = "" /\ result = <<>>
    /\ response.status = "no_data"

\* the closed intent enumeration of the data model
IntentEnumeration == {"top_selling", "time_series", "average_value", "total_value", "count",
                      "payment_analysis", "geographic", "order_status", "delivery_analysis",
                      "top_customers", "grouping"}

\* C3: classification is total: once _classify_intent has returned, the
\* intent is a member of the closed enumeration.
C3_ClassificationTotal ==
    pc \in Classified => intent \in IntentEnumeration

\* C3 witness: a text without any keyword has been classified
C3_Witness ==
    pc = "extract" /\ query_clean = "asdf qwerty" /\ intent \in IntentEnumeration

\* the priority order of the classifier's rules, highest first
RuleIntent == <<"top_customers", "delivery_analysis", "top_selling", "time_series",
                "average_value", "total_value", "count", "payment_analysis", "geographic",
                "order_status">>

RuleMatches(k, q) ==
    CASE k = 1 -> AnyIn(q, CustomerTerms)
      [] k = 2 -> AnyIn(q, DeliveryTerms)
      [] k = 3 -> AnyIn(q, RankingTerms) /\ AnyIn(q, ProductTerms)
      [] k = 4 -> AnyIn(q, TrendTerms)
      [] k = 5 -> AnyIn(q, AverageTerms)
      [] k = 6 -> AnyIn(q, TotalTerms)
      [] k = 7 -> AnyIn(q, CountTerms)
      [] k = 8 -> AnyIn(q, PaymentTerms)
      [] k = 9 -> AnyIn(q, GeoTerms)
      [] k = 10 -> AnyIn(q, StatusTerms)

MatchingRules(q) == {k \in 1..Len(RuleIntent) : RuleMatches(k, q)}

\* C4: when _classify_intent returns (query() then stands before the
\* extraction), the intent is that of the highest-priority rule the text matches,
\* whatever lower-priority rules match as well; the fallback intent only when
\* no rule matches.
C4_FirstMatchingRuleWins ==
    pc = "extract" =>
        IF MatchingRules(query_clean) = {}
        THEN intent = FallbackIntent
        ELSE intent = RuleIntent[SetMin(MatchingRules(query_clean))]

\* C4 witness: a text that matches three rules at once has been classified
C4_Witness ==
    pc = "extract" /\ Cardinality(MatchingRules(query_clean)) >= 3

\* C5 as stated: when it has been classified, every text with "delivery" and "top selling category" is
\* classified delivery_analysis.
C5_Original ==
    (pc = "extract" /\ Contains(query_clean, "delivery")
        /\ Contains(query_clean, "top selling category"))
    => intent = "delivery_analysis"

\* C5 amended: when it has been classified, every text with "delivery" and "top selling category" and
\* without a customer/lifetime-value term is classified delivery_analysis.
C5_DeliveryBeforeRanking ==
    (pc = "extract" /\ Contains(query_clean, "delivery")
        /\ Contains(query_clean, "top selling category")
        /\ ~AnyIn(query_clean, CustomerTerms))
    => intent = "delivery_analysis"

\* C5 witness: such a text has been classified
C5_Witness ==
    /\ pc = "extract" /\ Contains(query_clean, "delivery")
    /\ Contains(query_clean, "top selling category")
    /\ ~AnyIn(query_clean, CustomerTerms)
    /\ intent = "delivery_analysis"

C7_Original ==
    (pc = "execute" /\ Occurrences(sql_query, "LIMIT ") # {})
    => LimitOf(sql_query) >= 1

\* C8 as stated: for months_back >= 1 the date literal of a time-windowed
\* statement is the first day of the month months_back months before the
\* current month.
C8_Original ==
    (pc = "execute" /\ Occurrences(sql_query, "DATE '") # {}
        /\ Get(params, "months_back", 12) >= 1)
    => /\ SubSeq(CutoffOf(sql_query), 8, 10) = "-01"
       /\ IsoMonthIndex(CutoffOf(sql_query))
             = MonthIndex(now) - Get(params, "months_back", 12)

\* the value of months_back under the stated precedence: "<N> quarters", then
\* "<N> months", then a bare "quarter", then a bare "year", the first rule that
\* applies deciding; -1 stands for an absent key
FirstRuleMonthsBack(q) ==
    IF DigitsBeforeFrom(q, "quarter", 1) # "" THEN 3 * ParseInt(DigitsBeforeFrom(q, "quarter", 1))
    ELSE IF DigitsBeforeFrom(q, "month", 1) # "" THEN ParseInt(DigitsBeforeFrom(q, "month", 1))
    ELSE IF Contains(q, "quarter") THEN 3
    ELSE IF Contains(q, "year") THEN 12
    ELSE -1

\* C9 as stated: what _extract_parameters returns as months_back is the value
\* set by the first rule that applies; no later rule overwrites it.
C9_Original ==
    pc = "generate" => Get(params, "months_back", -1) = FirstRuleMonthsBack(query_clean)

\* a text that carries nothing of q but what the generator may use of it: the
\* matched category fragment and the words customer, order, product
Surrogate(q) ==
    category_match(q)
    \o (IF Contains(q, "customer") THEN " customer" ELSE "")
    \o (IF Contains(q, "order") THEN " order" ELSE "")
    \o (IF Contains(q, "product") THEN " product" ELSE "")

\* the parameter set cut down to top_n and months_back
Numerics(p) == [k \in (DOMAIN p) \cap {"top_n", "months_back"} |-> p[k]]

\* C10: the statement that _generate_sql returns is a function of the intent, of top_n and months_back,
\* of the matched category fragment and of the presence of the words customer,
\* order and product: it equals the statement generated for those alone, and
\* nothing of an injected "drop table" reaches it.
C10_NoRawTextInSql ==
    pc = "execute" =>
        /\ sql_query = _generate_sql(intent, Numerics(params), Surrogate(query_clean))
        /\ Contains(query_clean, "drop table") => ~Contains(sql_query, "drop table")

\* C10 witness: a question with SQL metacharacters after a category name led
\* to the category-filtered statement
C10_Witness ==
    /\ pc = "execute" /\ Contains(natural_language_query, "'; DROP TABLE orders; --")
    /\ intent = "average_value"
    /\ sql_query = SqlAverageValueFor("electronics")

\* the text that introduces the growth figure of the time series narrative
GrowthMarker == "**Growth Rate (latest vs oldest shown)**: "

\* the growth figure as written: what follows the marker
ReportedGrowth(analysis) == After(analysis, GrowthMarker)

\* a figure "+d.d%" or "-d.d%" read back as a number of tenths of a percent
ReportedTenths(s) ==
    LET dot == IndexOf(s, ".")
        mag == ParseInt(SubSeq(s, 2, dot - 1)) * 10 + ParseInt(SubSeq(s, dot + 1, dot + 1))
    IN  IF SubSeq(s, 1, 1) = "-" THEN -mag ELSE mag

\* s is a signed decimal with one fractional digit followed by a percent sign
IsPercentage(s) ==
    /\ SubSeq(s, 1, 1) \in {"+", "-"}
    /\ IndexOf(s, ".") > 2
    /\ IsNumeral(SubSeq(s, 2, IndexOf(s, ".") - 1))
    /\ Len(s) = IndexOf(s, ".") + 2
    /\ IsDigit(SubSeq(s, Len(s) - 1, Len(s) - 1))
    /\ SubSeq(s, Len(s), Len(s)) = "%"

Abs(n) == IF n < 0 THEN -n ELSE n

\* C11: a finished time_series call that fetched rows whose first and last
\* revenue are numbers or null did not raise, and its narrative ends with the
\* growth between the first (latest) and the last (oldest) row: the figure
\* (latest - oldest) / oldest * 100 to the nearest tenth when the oldest revenue
\* is a number other than 0, the N/A marker when it is 0 or null; it never
\* holds an infinity.
C11_GrowthOrUndefined ==
    (pc = "done" /\ intent = "time_series" /\ result # <<>>
        /\ result[1][3].t = "num" /\ result[Len(result)][3].t \in {"num", "null"})
    => LET latest == result[1][3].n
           oldest == result[Len(result)][3]
           figure == ReportedGrowth(response.analysis)
       IN  /\ exc = ""
           /\ response.status = "success"
           /\ ~Contains(response.analysis, "inf")
           /\ IF oldest.t = "num" /\ oldest.n # 0
              THEN /\ IsPercentage(figure)
                   /\ 2 * Abs(ReportedTenths(figure) * oldest.n - 1000 * (latest - oldest.n))
                         <= oldest.n
              ELSE figure = "N/A (oldest period revenue = 0)"

\* C11 witness: a time_series call whose oldest period has revenue 0 returned
\* the narrative with the N/A marker
C11_Witness ==
    /\ pc = "done" /\ intent = "time_series" /\ Len(result) > 1
    /\ result[Len(result)][3] = Num(0)
    /\ response.status = "success"
    /\ Contains(response.analysis, "N/A (oldest period revenue = 0)")

\* the call ended because self.db.execute raised
StoreRejected == pc = "done" /\ StartsAt(exc, 1, "Database query failed: ")

\* C12 as stated: when the store rejected the statement, the envelope has
\* status error, its error field carries the store's message, it suggests a
\* known-good question, its data is empty, and the text of the statement
\* occurs in none of its error, suggestion and analysis fields.
C12_Original ==
    StoreRejected =>
        /\ response.status = "error"
        /\ \E e \in StoreErrors(sql_query) :
              response.error = "Query processing error: Database query failed: " \o e
        /\ Contains(response.suggestion, "\"Top selling category?\"")
        /\ response.data = <<>>
        /\ ~Contains(response.error, sql_query)
        /\ ~Contains(response.suggestion, sql_query)
        /\ ~Contains(response.analysis, sql_query)

\* C13: a call of query() hands at most one statement to the store, the one
\* _generate_sql returned; when the store rejected it, nothing else was
\* executed before the error envelope was returned.
C13_AtMostOneExecute ==
    /\ Len(executed) <= 1
    /\ pc \in {"format", "except", "done"} /\ executed # <<>> => executed = <<sql_query>>
    /\ StoreRejected => (Len(executed) = 1 /\ response.status = "error")

\* C13 witness: the store rejected the statement and the call returned the
\* error envelope after that single execution
C13_Witness ==
    StoreRejected /\ executed = <<sql_query>> /\ result = <<>> /\ response.status = "error"

\* what a call returns, computed from its own text, the clock, the rows and
\* the exception alone
ResponseOfCall ==
    LET i   == IntentOf(Lower(query_clean))
        p   == _extract_parameters(query_clean)
        sql == _generate_sql(i, p, query_clean)
    IN  IF exc # "" THEN _handle_error(exc, query_clean)
        ELSE _format_response(result, i, p, query_clean, sql).val

\* C14: the log starts empty; the step that starts a call appends exactly one
\* entry, the time and the cleaned text of that call, and every other step,
\* whether the call goes on to success, no_data or error, leaves the log as it
\* is; so earlier entries never change and n calls leave n entries in call
\* order.  Nothing reads the log: what a call returns is determined by the
\* call's own text, clock, rows and exception.
C14_LogAppendOnly ==
    /\ conversation_history = <<>>
    /\ [][IF pending' # pending
          THEN conversation_history' =
                  Append(conversation_history,
                         HistoryEntry(now', _clean_query(Head(pending))))
          ELSE conversation_history' = conversation_history]_vars
    /\ [](pc = "done" => response = ResponseOfCall)

\* C14 witness: three calls were made, the last one ended in the error
\* envelope, and the log holds their three texts in call order
C14_Witness ==
    /\ pc = "done" /\ pending = <<>> /\ response.status = "error"
    /\ Len(conversation_history) = 3
    /\ conversation_history[1].query = "average order value"
    /\ conversation_history[2].query = "top 0 customers"
    /\ conversation_history[3].query = query_clean

\* the clauses that make a statement a ranking of the ten top categories by revenue
IsTopCategoriesByRevenue(sql) ==
    /\ Contains(sql, "COALESCE(p.product_category_name, 'Unknown') as category")
    /\ Contains(sql, "ROUND(SUM(COALESCE(oi.price, 0)), 2) as revenue")
    /\ Contains(sql, "GROUP BY p.product_category_name\nORDER BY revenue DESC\nLIMIT 10\n")

\* C15: a text that matches none of the keyword rules is classified as the
\* fallback intent, a member of the enumeration; its statement is a top
\* categories by revenue template, the unwindowed one when the text names no
\* time window (as for 'asdf qwerty'); and when the store accepted the
\* statement the call returns success for a non-empty result and no_data for an
\* empty one, never error.
C15_FallbackRunsDefaultTemplate ==
    (pc \in {"execute", "done"} /\ MatchingRules(query_clean) = {}) =>
        /\ intent = FallbackIntent /\ intent \in IntentEnumeration
        /\ IsTopCategoriesByRevenue(sql_query)
        /\ ~Has(params, "months_back") => sql_query = SqlTopSelling
        /\ (pc = "done" /\ ~StoreRejected) =>
              /\ exc = ""
              /\ response.status = (IF result # <<>> THEN "success" ELSE "no_data")

\* C15 witness: 'asdf qwerty' was answered from the unwindowed template with
\* rows that no conversion of the time series narrative would accept
C15_Witness ==
    /\ pc = "done" /\ query_clean = "asdf qwerty" /\ sql_query = SqlTopSelling
    /\ result = Rows(MaxRows, Str("n/a")) /\ response.status = "success"

\* the statement generated for 'Top selling category in the past 2 quarters'
\* is at hand
TwoQuartersAsked ==
    pc = "execute" /\ query_clean = "top selling category in the past 2 quarters"

\* the windowed ranking statement whose date literal is the first day of the
\* month 6 months before the current date
TwoQuartersStatement ==
    /\ sql_query = SqlTopSellingWindowed(CutoffOf(sql_query))
    /\ Contains(sql_query, "WHERE CAST(o.order_purchase_timestamp AS DATE) >= DATE '")
    /\ SubSeq(CutoffOf(sql_query), 8, 10) = "-01"
    /\ IsoMonthIndex(CutoffOf(sql_query)) = MonthIndex(now) - 6
    /\ Contains(sql_query, "ORDER BY revenue DESC")

\* C16 as stated: the intent is top_selling, the parameters are exactly
\* {months_back: 6} with no other key, and the statement is the windowed
\* ranking with the cutoff 6 months back.
C16_Original ==
    TwoQuartersAsked =>
        /\ intent = "top_selling"
        /\ params = Put(EmptyDict, "months_back", 6)
        /\ TwoQuartersStatement

\* C16 amended: the intent is top_selling, the parameters are months_back = 6
\* and, for the word "category", dimension = category, and the statement is
\* the windowed ranking with the cutoff 6 months back.
C16_TwoQuartersScenario ==
    TwoQuartersAsked =>
        /\ intent = "top_selling"
        /\ params = Put(Put(EmptyDict, "months_back", 6), "dimension", "category")
        /\ TwoQuartersStatement

\* C16 witness: the scenario has been rendered on the later of the two days
C16_Witness ==
    /\ TwoQuartersAsked /\ now = Dates[2]
    /\ sql_query = SqlTopSellingWindowed("2024-01-01")

\* C17: for 'Average order value' the intent is average_value, the parameter
\* set is empty, the category pattern matches nothing, and the statement is the
\* average_value template without a category filter: no WHERE clause, grouped
\* by category, ordered by average value descending.
C17_AverageOrderValueScenario ==
    (pc = "execute" /\ natural_language_query = "Average order value") =>
        /\ intent = "average_value"
        /\ params = EmptyDict
        /\ category_match(query_clean) = ""
        /\ sql_query = SqlAverageValue
        /\ ~Contains(sql_query, "WHERE") /\ ~Contains(sql_query, "LIKE")
        /\ Contains(sql_query, "GROUP BY p.product_category_name\nORDER BY avg_value DESC\n")

\* C17 witness: the scenario has been rendered
C17_Witness ==
    /\ pc = "execute" /\ natural_language_query = "Average order value"
    /\ query_clean = "average order value" /\ sql_query = SqlAverageValue

\* s ends with w
EndsWith(s, w) == Len(s) >= Len(w) /\ SubSeq(s, Len(s) - Len(w) + 1, Len(s)) = w

\* the list items of a returned insight: its lines between the header and the
\* blank line before the source tag
ItemsOf(text) == SubSeq(SplitLines(text), 2, Len(SplitLines(text)) - 2)

\* the item repeats words of the reply of the model
FromReply(item, reply) == Contains(Collapse(reply), SubSeq(item, 3, Len(item)))

\* C18 as stated: what get_gemini_insights returns carries a source tag; without
\* a configured model, or when no call returned text, it is the local fallback
\* tagged fallback; and a result tagged model was returned after a call of
\* generate_content gave non-empty text and holds lines of that text only, none
\* of the lines the fallback derives from the envelope.
C18_Original ==
    gi_pc = "done" =>
        /\ EndsWith(insight, "\n\n_Source: model_") \/ EndsWith(insight, "\n\n_Source: fallback_")
        /\ (~gemini_model \/ Strip(extracted) = "") => insight = FallbackReturn(query_result)
        /\ EndsWith(insight, "\n\n_Source: model_") =>
              /\ gemini_model /\ generate_calls >= 1 /\ Strip(extracted) # ""
              /\ \A k \in 1..Len(ItemsOf(insight)) :
                    /\ FromReply(ItemsOf(insight)[k], extracted)
                    /\ \A n \in 1..Len(PaddingItems(query_result)) :
                          ItemsOf(insight)[k] # PaddingItems(query_result)[n]

\* the error is one of those line 423 takes for transient
ClassifiedTransient(e) ==
    \E k \in {"rate", "timeout", "tempor", "resource_exhausted", "throttl", "connection"} :
        Contains(Lower(e), k)

\* C19: get_gemini_insights calls generate_content at most 3 times; a further
\* attempt is begun only after an error classified as transient on one of the
\* first two attempts; after any other error, and after any error on the third
\* attempt, the next step returns the fallback insight without another call;
\* every run ends, and what it returns is a non-empty text.
C19_BoundedRetries ==
    /\ [](generate_calls <= 3 /\ attempt <= 2)
    /\ [][attempt' # attempt =>
            (gi_pc = "except" /\ ClassifiedTransient(err) /\ attempt < 2
             /\ attempt' = attempt + 1)]_vars
    /\ [][generate_calls' # generate_calls =>
            (generate_calls' = generate_calls + 1 /\ generate_calls = attempt)]_vars
    /\ [][(gi_pc = "except" /\ ~(ClassifiedTransient(err) /\ attempt < 2)) =>
            (gi_pc' = "done" /\ insight' = FallbackReturn(query_result)
             /\ generate_calls' = generate_calls)]_vars
    /\ [](gi_pc = "done" => Len(insight) > 0)
    /\ <>(gi_pc = "done")

\* C19 witness: three calls failed with transient errors and the fallback was
\* returned
C19_Witness ==
    /\ gi_pc = "done" /\ generate_calls = 3 /\ attempt = 2 /\ ClassifiedTransient(err)
    /\ insight = FallbackReturn(query_result)

\* ---------------------------------------------------------------------------
\* database.py: get_db, called by the threads of one process
\* ---------------------------------------------------------------------------
\* Every caller (the engine's constructor, the page script that a session
\* thread runs, the tools) goes through get_db.  The function holds no lock,
\* so a thread can be suspended between any two of its steps: the test of the
\* global, the call of load_data, the assignment to the global and the read
\* of the global for the return value.

\* a thread calls get_db
DbCall(t) ==
    /\ db_pc[t] \in {"idle", "done", "failed"}
    /\ gets < MaxGets
    /\ gets' = gets + 1
    /\ db_pc' = [db_pc EXCEPT ![t] = "test"]
    /\ since' = [since EXCEPT ![t] = first_conn]
    /\ UNCHANGED <<_db_instance, conn, returned, first_conn, load_runs>>
    /\ UNCHANGED <<engineVars, insightVars, chatVars>>

\* if _db_instance is None:
DbTest(t) ==
    /\ db_pc[t] = "test"
    /\ db_pc' = [db_pc EXCEPT ![t] = IF _db_instance = NoConnection THEN "load" ELSE "return"]
    /\ UNCHANGED <<_db_instance, conn, returned, since, first_conn, load_runs, gets>>
    /\ UNCHANGED <<engineVars, insightVars, chatVars>>

\* load_data() builds a new connection and returns it
DbLoad(t) ==
    /\ db_pc[t] = "load"
    /\ load_runs' = load_runs + 1
    /\ conn' = [conn EXCEPT ![t] = load_runs + 1]
    /\ db_pc' = [db_pc EXCEPT ![t] = "assign"]
    /\ UNCHANGED <<_db_instance, returned, since, first_conn, gets>>
    /\ UNCHANGED <<engineVars, insightVars, chatVars>>

\* load_data() re-raises what went wrong; get_db passes it on and the global
\* stays as it was
DbLoadFails(t) ==
    /\ db_pc[t] = "load"
    /\ db_pc' = [db_pc EXCEPT ![t] = "failed"]
    /\ UNCHANGED <<_db_instance, conn, returned, since, first_conn, load_runs, gets>>
    /\ UNCHANGED <<engineVars, insightVars, chatVars>>

\* _db_instance = <what load_data returned>
DbAssign(t) ==
    /\ db_pc[t] = "assign"
    /\ _db_instance' = conn[t]
    /\ db_pc' = [db_pc EXCEPT ![t] = "return"]
    /\ UNCHANGED <<conn, returned, since, first_conn, load_runs, gets>>
    /\ UNCHANGED <<engineVars, insightVars, chatVars>>

\* return _db_instance
DbReturn(t) ==
    /\ db_pc[t] = "return"
    /\ returned' = [returned EXCEPT ![t] = _db_instance]
    /\ first_conn' = IF first_conn = NoConnection THEN _db_instance ELSE first_conn
    /\ db_pc' = [db_pc EXCEPT ![t] = "done"]
    /\ UNCHANGED <<_db_instance, conn, since, load_runs, gets>>
    /\ UNCHANGED <<engineVars, insightVars, chatVars>>

InitDb == EngineAtRest /\ InsightsAtRest /\ DbAtRest /\ ChatAtRest

NextDb ==
    \E t \in Threads :
        \/ DbCall(t)
        \/ DbTest(t)
        \/ DbLoad(t)
        \/ DbLoadFails(t)
        \/ DbAssign(t)
        \/ DbReturn(t)

SpecDb == InitDb /\ [][NextDb]_vars

\* C20: at most one connection is ever created and kept: load_data does not
\* run a second time successfully, the global never changes once it is set,
\* and a get_db call that began after some call had returned a connection
\* returns that same connection and does not reach load_data.
C20_Original ==
    /\ load_runs <= 1
    /\ \A t \in Threads : (db_pc[t] = "done" /\ since[t] # NoConnection) => returned[t] = since[t]
    /\ \A t \in Threads : since[t] # NoConnection => db_pc[t] \notin {"load", "assign"}

\* the value the rules give a key: that of the last rule, in the order the
\* rules are written, whose words occur in q; "" when no rule matches
RECURSIVE LastMatch(_, _)
LastMatch(q, rules) ==
    IF rules = <<>> THEN ""
    ELSE LET last == rules[Len(rules)]
         IN  IF AnyIn(q, last.words) THEN last.value
             ELSE LastMatch(q, SubSeq(rules, 1, Len(rules) - 1))

DimensionRules ==
    <<[words |-> {"category"}, value |-> "category"],
      [words |-> {"state"}, value |-> "state"],
      [words |-> {"city"}, value |-> "city"]>>

MetricRules ==
    <<[words |-> {"revenue", "sales"}, value |-> "revenue"],
      [words |-> {"rating", "review"}, value |-> "rating"],
      [words |-> {"price"}, value |-> "price"]>>

\* the rules of seq whose words occur in q
Matching(q, rules) == {k \in 1..Len(rules) : AnyIn(q, rules[k].words)}

\* C21: once the parameters are extracted, dimension is the value of the last
\* of the rules category, state, city whose word occurs in the text, metric
\* the value of the last of the rules revenue/sales, rating/review, price
\* whose word occurs, and a key is absent exactly when none of its words occurs.
C21_LastMatchWins ==
    pc = "generate" =>
        /\ Has(params, "dimension") <=> LastMatch(query_clean, DimensionRules) # ""
        /\ Has(params, "dimension") => params["dimension"] = LastMatch(query_clean, DimensionRules)
        /\ Has(params, "metric") <=> LastMatch(query_clean, MetricRules) # ""
        /\ Has(params, "metric") => params["metric"] = LastMatch(query_clean, MetricRules)

\* C21 witness: a text with all three dimension words and one with all three
\* kinds of metric word have been through the extraction
C21_Witness ==
    /\ pc = "generate"
    /\ \/ /\ Cardinality(Matching(query_clean, DimensionRules)) = 3
          /\ params["dimension"] = "city" /\ params["metric"] = "revenue"
       \/ /\ Cardinality(Matching(query_clean, MetricRules)) = 3
          /\ params["metric"] = "price" /\ params["dimension"] = "state"

\* positions of query() between the return of _extract_parameters and the
\* return of query()
AfterExtraction == {"generate", "execute", "format", "except"}

\* C22: from the return of _extract_parameters to the return of query() no
\* step changes the parameter mapping, and the params field of every success
\* or no_data envelope is the mapping extracted from the cleaned text.
C22_ParamsFrozen ==
    /\ [][(pc \in AfterExtraction) => (params' = params)]_vars
    /\ []((pc = "done" /\ response.status \in {"success", "no_data"}) =>
            /\ response.params = params
            /\ response.params = _extract_parameters(query_clean))

\* C22 witness: an envelope of a finished call carries a mapping of two keys
C22_Witness ==
    /\ pc = "done" /\ response.status \in {"success", "no_data"}
    /\ query_clean = "top selling category in the past 2 quarters"
    /\ response.params = Put(Put(EmptyDict, "months_back", 6), "dimension", "category")
    /\ response.status = "success" <=> result # <<>>

\* the rows of a result that a narrative mentions, by their first column as
\* both templates print it (the rows of a result have distinct first columns)
WalkedRows(analysis, rows) ==
    {i \in 1..Len(rows) : Contains(analysis, Prefix(StrOf(rows[i][1]), 10))}

SuccessReturned == pc = "done" /\ response.status = "success"

\* C23 as stated: for every intent the narrative of a success envelope
\* mentions rows among the first K = 5 only.
C23_Original ==
    SuccessReturned => WalkedRows(response.analysis, response.data) \subseteq 1..K

\* C23 amended: for every intent but time_series the narrative of a success
\* envelope mentions exactly the first min(K, n) of the n rows returned; for
\* time_series it mentions every returned row.
C23_FirstRowsWalked ==
    SuccessReturned =>
        WalkedRows(response.analysis, response.data) =
            IF response.intent = "time_series" THEN 1..Len(response.data)
            ELSE 1..Min(K, Len(response.data))

\* C23 witness: more than K rows came back for a question that is not about
\* a trend, and the narrative stops after the K-th
C23_Witness ==
    /\ SuccessReturned /\ response.intent # "time_series"
    /\ Len(response.data) > K
    /\ WalkedRows(response.analysis, response.data) = 1..K

\* the ranking statement restricted to purchases since a cutoff date
IsWindowedRanking(sql) ==
    /\ Contains(sql, "WHERE CAST(o.order_purchase_timestamp AS DATE) >= DATE '")
    /\ sql = SqlTopSellingWindowed(CutoffOf(sql))

\* C24: for intent top_selling the generated statement is the time-windowed
\* template exactly when the key months_back is in the parameter set, and the
\* unwindowed template exactly when the key is absent.
C24_Original ==
    (pc = "execute" /\ intent = "top_selling") =>
        /\ Has(params, "months_back") <=> IsWindowedRanking(sql_query)
        /\ ~Has(params, "months_back") <=> sql_query = SqlTopSelling

\* the intents that have a branch of their own in _generate_sql
BranchIntents == {RuleIntent[k] : k \in 1..Len(RuleIntent)}

\* C25: every value _classify_intent returns has its own branch in
\* _generate_sql, so the statement a call generates is never the trailing
\* default template (the LEFT JOIN statement), and no envelope carries the
\* intent 'grouping'.
C25_DefaultTemplateUnreached ==
    /\ pc \in Classified => (intent \in BranchIntents /\ intent # "grouping")
    /\ sql_query # SqlDefault /\ ~Contains(sql_query, "LEFT JOIN")
    /\ \A k \in 1..Len(executed) : executed[k] # SqlDefault
    /\ (pc = "done" /\ response.status \in {"success", "no_data"}) =>
            (response.intent \in BranchIntents /\ response.sql # SqlDefault)

\* C25 witness: a text that matches no rule at all has been answered, by the
\* final return of _classify_intent and the top_selling branch
C25_Witness ==
    /\ pc = "done" /\ MatchingRules(query_clean) = {}
    /\ response.status = "no_data" /\ response.intent = "top_selling"
    /\ response.sql = SqlTopSelling /\ executed = <<SqlTopSelling>>

\* C26: a question whose cleaned text contains 'customer' is classified
\* top_customers, so a call classified count never has 'customer' in its text
\* and the statement of a call is never the 'Total Customers' count.
C26_CustomerNeverCounted ==
    /\ (pc \in Classified /\ Contains(query_clean, "customer")) => intent = "top_customers"
    /\ (pc \in Classified /\ intent = "count") => ~Contains(query_clean, "customer")
    /\ sql_query # SqlCountCustomers
    /\ \A k \in 1..Len(executed) : executed[k] # SqlCountCustomers

\* C26 witness: 'how many customers', a text of the count rule as well, has
\* been answered with the ranking of customers
C26_Witness ==
    /\ pc = "done" /\ query_clean = "how many customers"
    /\ RuleMatches(7, query_clean)
    /\ intent = "top_customers" /\ sql_query = SqlTopCustomers(10)

\* values of top_n that a question can name, and its absence
TopNs == {0, 1, 5, 10, 50}

\* the parameter set p with top_n set to n, and with top_n removed
WithTopN(p, n) == Put(p, "top_n", n)
WithoutTopN(p) == [k \in (DOMAIN p) \ {"top_n"} |-> p[k]]

\* C27: the statement generated for top_customers ends in LIMIT top_n, LIMIT
\* 10 when top_n is absent; for every other intent the statement is the same
\* whatever top_n is and whether or not it is present, and for top_selling and
\* average_value it ends in LIMIT 10.
C27_TopNOnlyForCustomers ==
    pc = "execute" =>
        IF intent = "top_customers"
        THEN /\ sql_query = SqlTopCustomers(Get(params, "top_n", 10))
             /\ LimitOf(sql_query) = Get(params, "top_n", 10)
             /\ \A n \in TopNs :
                   LimitOf(_generate_sql(intent, WithTopN(params, n), query_clean)) = n
        ELSE /\ sql_query = _generate_sql(intent, WithoutTopN(params), query_clean)
             /\ \A n \in TopNs :
                   sql_query = _generate_sql(intent, WithTopN(params, n), query_clean)
             /\ intent \in {"top_selling", "average_value"} => LimitOf(sql_query) = 10

\* C27 witness: the statement for 'top 5 categories' is at hand
C27_Witness ==
    /\ pc = "execute" /\ query_clean = "top 5 categories"
    /\ intent = "top_selling" /\ params["top_n"] = 5 /\ LimitOf(sql_query) = 10

\* a statement with a cutoff date is at hand; the number of months it was
\* computed from
CutoffAtHand == pc = "execute" /\ Occurrences(sql_query, "DATE '") # {}
MonthsAsked == Get(params, "months_back", 12)

\* smaller numbers of months to compare a cutoff with
FewerMonths == {0, 1, 2, 3, 5, 6, 12}

\* the first of the month of the relativedelta path, when that path returns
PreferredCutoff(today, months_back) ==
    LET target == MinusRelativeDelta(today, months_back)
    IN  IF target.ok THEN IsoFormat(Date(target.val.year, target.val.month, 1)) ELSE ""

\* the two paths return the same date for the months asked
PathsAgree ==
    /\ CutoffOf(sql_query) = ManualMonthsAgo(now, MonthsAsked)
    /\ PreferredCutoff(now, MonthsAsked) \in {"", ManualMonthsAgo(now, MonthsAsked)}

\* the cutoff is the first day of a month not later than the current month
CutoffInRange ==
    /\ SubSeq(CutoffOf(sql_query), 8, 10) = "-01"
    /\ IsoMonthIndex(CutoffOf(sql_query)) <= MonthIndex(now)

\* no smaller number of months gives an earlier cutoff
CutoffMonotone ==
    \A k \in FewerMonths :
        k <= MonthsAsked =>
            IsoMonthIndex(CutoffOf(sql_query)) <= IsoMonthIndex(_months_ago_date(k))

\* C28: the relativedelta path and the manual rollover return the same date,
\* the cutoff is never later than the first day of the current month, and it
\* never becomes later when months_back increases, also when months_back
\* pushes the target year below 1.
C28_Original ==
    CutoffAtHand => (PathsAgree /\ CutoffInRange /\ CutoffMonotone)

\* ---------------------------------------------------------------------------
\* agent_conversational.py and agent_simple.py: the two chatbots
\* ---------------------------------------------------------------------------
\* A chatbot owns an engine and keeps a log of its own.  A call of chat() is
\* taken whole, with the call of query() it makes: the engine's log entry,
\* its classification and its return value.  Of a log entry the keys role and
\* message (content in agent_simple.py) are kept; the timestamp and the keys
\* that repeat the query result are left out.  The markdown table that both
\* chatbots append to the text of an answer is left out of the text as well.

\* what chat() is called with: texts, and None
UserMessages == {Str("top selling category"), Null}

IsText(m) == m.t = "str"

\* the length conversation_context is cut back to
ContextSize == 5

\* mutant: the newest message but one is dropped from a full context
Evict_Newest(ctx) ==
    IF Len(ctx) > ContextSize
    THEN SubSeq(ctx, 1, Len(ctx) - 2) \o <<ctx[Len(ctx)]>>
    ELSE ctx

\* if len(self.conversation_context) > 5: self.conversation_context.pop(0)
Evict(ctx) == IF Len(ctx) > ContextSize THEN Tail(ctx) ELSE ctx

\* the state of database.py after a chatbot's constructor: the engine's
\* constructor and the chatbot's own have called get_db one after the other
DbAfterConstruction ==
    /\ _db_instance = 1 /\ first_conn = 1 /\ load_runs = 1 /\ gets = 2
    /\ db_pc = [t \in Threads |-> IF t = 1 THEN "done" ELSE "idle"]
    /\ conn = [t \in Threads |-> IF t = 1 THEN 1 ELSE NoConnection]
    /\ returned = [t \in Threads |-> IF t = 1 THEN 1 ELSE NoConnection]
    /\ since = [t \in Threads |-> IF t = 1 THEN 1 ELSE NoConnection]

\* the texts among the messages, and what the engine's pure functions make
\* of each: the cleaned text, its intent, its parameters
Texts == {m.s : m \in {um \in UserMessages : IsText(um)}}
Cleaned == [text \in Texts |-> _clean_query(text)]
IntentFor == [text \in Texts |-> _classify_intent(Cleaned[text])]
ParamsFor == [text \in Texts |-> _extract_parameters(Cleaned[text])]

\* the envelopes query(text) can return: the store answers with no row or
\* with one, or rejects the statement
QueryOutcomes(text) ==
    LET q   == Cleaned[text]
        i   == IntentFor[text]
        p   == ParamsFor[text]
        sql == _generate_sql(i, p, q)
        formatted == [rows \in {r \in FetchAll(sql) : Len(r) <= 1} |->
                         _format_response(rows, i, p, q, sql)]
    IN  {IF formatted[rows].ok THEN formatted[rows].val
         ELSE _handle_error(formatted[rows].err, q) : rows \in DOMAIN formatted}
        \cup {_handle_error("Database query failed: " \o e, q) : e \in StoreErrors(sql)}

\* the engine after query(text) has returned envelope
EngineAnswered(text, envelope) ==
    /\ conversation_history' = Append(conversation_history, HistoryEntry(now, Cleaned[text]))
    /\ classified' = Append(classified, IntentFor[text])
    /\ response' = envelope
    /\ UNCHANGED <<pending, now, has_dateutil, pc, natural_language_query, query_clean,
                   intent, params, sql_query, result, exc, executed>>

\* agent_conversational.py, _get_follow_up_suggestions
_get_follow_up_suggestions(user_question) ==
    LET question_lower == Lower(user_question)
    IN  "\n\n### **You might also want to know:**\n"
        \o (IF Contains(question_lower, "category")
            THEN "\n- What's the average rating for this category?\n"
                 \o "- Which state buys this category the most?\n"
                 \o "- How does this compare to others?\n"
            ELSE IF Contains(question_lower, "order")
            THEN "\n- What's the total revenue?\n"
                 \o "- Which category has the highest order value?\n"
                 \o "- How does this vary by region?\n"
            ELSE IF Contains(question_lower, "revenue") \/ Contains(question_lower, "sales")
            THEN "\n- What's the growth trend?\n"
                 \o "- Which categories drive revenue?\n"
                 \o "- What's the breakdown by payment method?\n"
            ELSE "\n- Want more details on any metric?\n"
                 \o "- Curious about geographical patterns?\n"
                 \o "- Need analysis by category?\n")

\* agent_conversational.py, _format_conversational_response
_format_conversational_response(envelope, user_question) ==
    IF envelope.status = "error"
    THEN "I couldn't answer that: " \o envelope.error
    ELSE IF envelope.status = "no_data"
    THEN "No data found for: " \o user_question \o "\n\nTry rephrasing your question."
    ELSE envelope.analysis
         \o (IF envelope.data # <<>> THEN "\n\n### **Detailed Results:**\n\n" ELSE "")
         \o _get_follow_up_suggestions(user_question)

\* the first line of the text chat() answers with when its try block failed
error_response == "I couldn't process that question."

\* agent_simple.py, _enrich_response: the descriptions of the first three rows
RECURSIVE CategoryInsights(_)
CategoryInsights(rows) ==
    IF rows = <<>> THEN ""
    ELSE "**Category: " \o StrOf(rows[1][1]) \o "**\n" \o CategoryInsights(Tail(rows))

\* agent_simple.py, _format_response_with_gemini on the enriched envelope,
\* without an API key: self.gemini_model is None and the text of
\* _get_gemini_enrichment, which says "unavailable", is not appended
_format_response_with_gemini(envelope) ==
    IF envelope.status = "error"
    THEN "Could not process: " \o envelope.error
    ELSE envelope.analysis
         \o (IF envelope.status = "success" /\ envelope.intent \in {"grouping", "top_selling"}
             THEN "\n\n**Category Context:**\n"
                  \o CategoryInsights(SubSeq(envelope.data, 1, Min(3, Len(envelope.data))))
             ELSE "")
         \o (IF envelope.status = "success" /\ Contains(Lower(envelope.analysis), "revenue")
             THEN "\n\n**Market Context:** Q4 typically shows highest sales due to holiday shopping"
             ELSE "")
         \o (IF envelope.data # <<>> THEN "\n\n### Data Details\n" ELSE "")

\* agent_simple.py 114: the parameters of the message as it was typed
UserParamsFor == [text \in Texts |-> _extract_parameters(text)]

\* agent_simple.py 116-120: what the parameters of the message leave in the context
ContextAfter(ctx, user_params) ==
    [ctx EXCEPT
        !.last_category = IF Get(user_params, "dimension", "") = "category"
                          THEN Str("category") ELSE @,
        !.last_metric = IF Has(user_params, "metric") THEN Str(user_params["metric"]) ELSE @]

\* ConversationalDataChatbot.chat, the try block runs to its end
CdcChat(m) ==
    /\ chatbot = "ConversationalDataChatbot"
    /\ Len(sent) < MaxChats
    /\ IsText(m)
    /\ \E envelope \in QueryOutcomes(m.s) :
          /\ EngineAnswered(m.s, envelope)
          /\ chat_history' = chat_history \o
                <<[role |-> "user", message |-> m],
                  [role |-> "assistant",
                   message |-> Str(_format_conversational_response(envelope, m.s))]>>
    /\ conversation_context' = Evict(Append(conversation_context, m))
    /\ sent' = Append(sent, m)
    /\ UNCHANGED <<chatbot, context>>
    /\ UNCHANGED <<insightVars, dbVars>>

\* ConversationalDataChatbot.chat, the try block raises: query() cleans its
\* argument before its own try block, and re.sub raises for what is no text
CdcChatFails(m) ==
    /\ chatbot = "ConversationalDataChatbot"
    /\ Len(sent) < MaxChats
    /\ ~IsText(m)
    /\ chat_history' = chat_history \o
          <<[role |-> "user", message |-> m],
            [role |-> "assistant", message |-> Str(error_response)]>>
    /\ conversation_context' = Evict(Append(conversation_context, m))
    /\ sent' = Append(sent, m)
    /\ UNCHANGED <<chatbot, context>>
    /\ UNCHANGED <<engineVars, insightVars, dbVars>>

\* EnhancedConversationalChatbot.chat, the try block runs to its end
EccChat(m) ==
    /\ chatbot = "EnhancedConversationalChatbot"
    /\ Len(sent) < MaxChats
    /\ IsText(m)
    /\ \E envelope \in QueryOutcomes(m.s) :
          /\ EngineAnswered(m.s, envelope)
          /\ chat_history' = chat_history \o
                <<[role |-> "user", content |-> m],
                  [role |-> "assistant",
                   content |-> Str(_format_response_with_gemini(envelope))]>>
    /\ context' = ContextAfter(
          [context EXCEPT !.questions_asked = Append(@, m), !.conversation_turns = @ + 1],
          UserParamsFor[m.s])
    /\ sent' = Append(sent, m)
    /\ UNCHANGED <<chatbot, conversation_context>>
    /\ UNCHANGED <<insightVars, dbVars>>

\* EnhancedConversationalChatbot.chat, the try block raises (_classify_intent
\* lower-cases its argument, which raises for what is no text) and chat()
\* returns what _handle_error builds
EccChatFails(m) ==
    /\ chatbot = "EnhancedConversationalChatbot"
    /\ Len(sent) < MaxChats
    /\ ~IsText(m)
    /\ chat_history' = Append(chat_history, [role |-> "user", content |-> m])
    /\ context' = [context EXCEPT !.questions_asked = Append(@, m),
                                  !.conversation_turns = @ + 1]
    /\ sent' = Append(sent, m)
    /\ UNCHANGED <<chatbot, conversation_context>>
    /\ UNCHANGED <<engineVars, insightVars, dbVars>>

\* a chatbot of either class has been constructed
InitChat ==
    /\ EngineAtRest /\ InsightsAtRest /\ DbAfterConstruction
    /\ chatbot \in {"ConversationalDataChatbot", "EnhancedConversationalChatbot"}
    /\ chat_history = <<>> /\ conversation_context = <<>>
    /\ context = NewContext /\ sent = <<>>

NextChat ==
    \E m \in UserMessages :
        \/ CdcChat(m)
        \/ CdcChatFails(m)
        \/ EccChat(m)
        \/ EccChatFails(m)

SpecChat == InitChat /\ [][NextChat]_vars

\* the last n elements of a sequence
LastOf(seq, n) == SubSeq(seq, Len(seq) - n + 1, Len(seq))

\* the messages of the entries of a log that have the given role
RECURSIVE MessagesOf(_, _)
MessagesOf(log, role) ==
    IF log = <<>> THEN <<>>
    ELSE (IF log[1].role = role THEN <<log[1].message>> ELSE <<>>)
         \o MessagesOf(Tail(log), role)

\* C29: after any sequence of n chat calls on a ConversationalDataChatbot,
\* conversation_context holds at most 5 messages, namely the last min(n, 5)
\* arguments of chat in the order they came, and the user entries of
\* conversation_history are all n arguments in that order.
C29_ContextIsLastFive ==
    chatbot = "ConversationalDataChatbot" =>
        /\ Len(conversation_context) <= 5
        /\ conversation_context = LastOf(sent, IF Len(sent) < 5 THEN Len(sent) ELSE 5)
        /\ MessagesOf(chat_history, "user") = sent

\* C29 witness: after six calls the first message, which differs from the
\* second, is gone from the context
C29_Witness ==
    /\ chatbot = "ConversationalDataChatbot"
    /\ Len(sent) = 6 /\ sent[1] # sent[2] /\ sent[2] # sent[3]
    /\ conversation_context = Tail(sent)
    /\ Len(chat_history) = 12

\* the entries of a log alternate user, assistant, user, assistant, ...
Alternating(log) ==
    \A k \in 1..Len(log) : log[k].role = (IF k % 2 = 1 THEN "user" ELSE "assistant")

UserEntries(log) == Cardinality({k \in 1..Len(log) : log[k].role = "user"})

\* C30: after n chat calls on either chatbot, calls whose processing failed
\* included, conversation_history has 2n entries that alternate between user
\* and assistant, and for the EnhancedConversationalChatbot conversation_turns
\* = n = the number of user entries.
C30_Original ==
    /\ Len(chat_history) = 2 * Len(sent)
    /\ Alternating(chat_history)
    /\ chatbot = "EnhancedConversationalChatbot" =>
          /\ context.conversation_turns = Len(sent)
          /\ UserEntries(chat_history) = Len(sent)

====
